---- MODULE Spec2Model ----
(***************************************************************************)
(* The SMTP session state machine of envoy-smtp-filter                     *)
(* (src/src/smtp/agent/session.rs) with its line reader, command parser    *)
(* (src/src/smtp/agent/command.rs) and reply parser                        *)
(* (src/src/smtp/spec/core/reply.rs).                                      *)
(*                                                                         *)
(* Bytes are the naturals 0..255, byte strings are sequences of bytes.     *)
(* Option<T> is a sequence of length 0 (None) or 1 (Some).                 *)
(***************************************************************************)
EXTENDS Integers, Sequences, FiniteSets, TLC

VARIABLES
    downstream_buffer,   \* Session.downstream_buffer : Vec<u8>
    upstream_buffer,     \* Session.upstream_buffer   : Vec<u8>
    mode,                \* Session.mode
    next_reply,          \* Session.next_reply : Option<Reply>
    next_body,           \* Session.next_body  : Vec<u8>
    pending_replies,     \* Session.pending_replies : VecDeque<PendingReply>
    active_transaction,  \* Session.active_transaction : Option<Transaction>
    notified,            \* the stats sink calls made by the last call, in order
    result,              \* what the last call returned to its caller
    last_call,           \* which operation the last call was
    last_data,           \* the bytes the last call was given
    fault,               \* the error the last call gave to fallback, if any
    lines_taken,         \* lines next_line removed from a buffer in the last call
    n_enqueued,          \* history: number of entries ever pushed
    n_completed,         \* history: number of Replies next_reply completed
    fell_back,           \* history: fallback was entered at least once
    opened_by,           \* history: number of the DATA entry whose reply last
                         \*   set Mode to Data (0: none did)
    rcpt_log,            \* history: arguments of the RCPT commands replied to
                         \*   positively since the last reset or commit
    sink_calls,          \* history: how many times each notification was
                         \*   made to the sink
    n_matched,           \* history: number of entries handle_reply dequeued
    phase_body,          \* history: the body lines taken since Mode last
                         \*   changed to Data or a body was committed
    downstream_rest,     \* the client's bytes on the wire, not yet delivered
    upstream_rest,       \* the server's bytes on the wire, not yet delivered
    failed_calls,        \* number of calls during which the sink failed
    traffic,             \* which of the sessions of Traffic this one is
    connects             \* number of on_new_conection calls

vars == <<downstream_buffer, upstream_buffer, mode, next_reply, next_body,
          pending_replies, active_transaction, notified, result, last_call,
          last_data, fault, lines_taken, n_enqueued, n_completed, fell_back,
          opened_by, rcpt_log, phase_body, sink_calls, n_matched,
          downstream_rest, upstream_rest,
          failed_calls, traffic, connects>>

-----------------------------------------------------------------------------
(* Byte strings *)

None == <<>>
Some(x) == <<x>>

\* smtp::spec::core::CR_LF = "\r\n" and SP = " "
CR_LF == <<13, 10>>
SP == <<32>>

\* bstr::ByteSlice::find: the index (from 0) of the first occurrence of
\* needle in haystack, -1 when there is none.
find(haystack, needle) ==
    LET n == Len(needle)
        hits == {i \in 0..(Len(haystack) - n) :
                    SubSeq(haystack, i + 1, i + n) = needle}
    IN  IF hits = {} THEN -1
        ELSE CHOOSE i \in hits : \A j \in hits : i <= j

\* Faulty variant: a line ends at the first LF, with or without a CR
next_line_at_lf(buffer) ==
    LET index == find(buffer, <<10>>)
        cr == IF index >= 1 /\ buffer[index] = 13 THEN 1 ELSE 0
    IN  IF index >= 0
        THEN [some |-> TRUE,
              line |-> SubSeq(buffer, 1, index - cr),
              buffer |-> SubSeq(buffer, index + 2, Len(buffer))]
        ELSE [some |-> FALSE, line |-> <<>>, buffer |-> buffer]

\* Faulty variant: the line and the CR are drained, the LF is left
next_line_leaves_lf(buffer) ==
    LET index == find(buffer, CR_LF)
    IN  IF index >= 0
        THEN [some |-> TRUE,
              line |-> SubSeq(buffer, 1, index),
              buffer |-> SubSeq(buffer, index + 2, Len(buffer))]
        ELSE [some |-> FALSE, line |-> <<>>, buffer |-> buffer]

\* next_line: drain the bytes before the first CR_LF and the CR_LF itself.
next_line(buffer) ==
    LET index == find(buffer, CR_LF)
    IN  IF index >= 0
        THEN [some |-> TRUE,
              line |-> SubSeq(buffer, 1, index),
              buffer |-> SubSeq(buffer, index + Len(CR_LF) + 1, Len(buffer))]
        ELSE [some |-> FALSE, line |-> <<>>, buffer |-> buffer]

\* String::from_utf8 succeeds exactly on well-formed UTF-8.
RECURSIVE from_utf8_ok(_)
from_utf8_ok(b) ==
    LET n == Len(b)
        cont(i) == i <= n /\ b[i] >= 128 /\ b[i] <= 191
        rest(k) == from_utf8_ok(SubSeq(b, k, n))
    IN  IF n = 0 THEN TRUE
        ELSE IF b[1] < 128 THEN rest(2)
        ELSE IF b[1] >= 194 /\ b[1] <= 223 THEN cont(2) /\ rest(3)
        ELSE IF b[1] = 224
             THEN n >= 2 /\ b[2] >= 160 /\ b[2] <= 191 /\ cont(3) /\ rest(4)
        ELSE IF b[1] = 237
             THEN n >= 2 /\ b[2] >= 128 /\ b[2] <= 159 /\ cont(3) /\ rest(4)
        ELSE IF b[1] >= 225 /\ b[1] <= 239 THEN cont(2) /\ cont(3) /\ rest(4)
        ELSE IF b[1] = 240
             THEN n >= 2 /\ b[2] >= 144 /\ b[2] <= 191 /\ cont(3) /\ cont(4)
                  /\ rest(5)
        ELSE IF b[1] >= 241 /\ b[1] <= 243
             THEN cont(2) /\ cont(3) /\ cont(4) /\ rest(5)
        ELSE IF b[1] = 244
             THEN n >= 2 /\ b[2] >= 128 /\ b[2] <= 143 /\ cont(3) /\ cont(4)
                  /\ rest(5)
        ELSE FALSE

\* Faulty variant: the case is kept
keep_case(b) == b

\* str::make_ascii_uppercase: 'a'..'z' become 'A'..'Z', every other byte stays.
make_ascii_uppercase(b) ==
    [i \in 1..Len(b) |-> IF b[i] >= 97 /\ b[i] <= 122 THEN b[i] - 32 ELSE b[i]]

-----------------------------------------------------------------------------
(* Commands: smtp/agent/command.rs and smtp/spec *)

Helo_VERB == <<72, 69, 76, 79>>                       \* "HELO"
Ehlo_VERB == <<69, 72, 76, 79>>                       \* "EHLO"
Mail_VERB == <<77, 65, 73, 76>>                       \* "MAIL"
Rcpt_VERB == <<82, 67, 80, 84>>                       \* "RCPT"
Data_VERB == <<68, 65, 84, 65>>                       \* "DATA"
Rset_VERB == <<82, 83, 69, 84>>                       \* "RSET"
Vrfy_VERB == <<86, 82, 70, 89>>                       \* "VRFY"
Expn_VERB == <<69, 88, 80, 78>>                       \* "EXPN"
Help_VERB == <<72, 69, 76, 80>>                       \* "HELP"
Noop_VERB == <<78, 79, 79, 80>>                       \* "NOOP"
Quit_VERB == <<81, 85, 73, 84>>                       \* "QUIT"
StartTls_VERB == <<83, 84, 65, 82, 84, 84, 76, 83>>   \* "STARTTLS"

\* A Command is [tag, verb, args]: tag names the enum variant, args holds the
\* variant's byte-string field (Mail.from, Rcpt.to, Helo.domain, ...), verb
\* is Unknown.verb and empty for the other variants.
Cmd(tag, verb, args) == [tag |-> tag, verb |-> verb, args |-> args]

\* Command::verb
CommandVerb(cmd) ==
    CASE cmd.tag = "Helo" -> Helo_VERB
      [] cmd.tag = "Ehlo" -> Ehlo_VERB
      [] cmd.tag = "Mail" -> Mail_VERB
      [] cmd.tag = "Rcpt" -> Rcpt_VERB
      [] cmd.tag = "Data" -> Data_VERB
      [] cmd.tag = "Rset" -> Rset_VERB
      [] cmd.tag = "Vrfy" -> Vrfy_VERB
      [] cmd.tag = "Expn" -> Expn_VERB
      [] cmd.tag = "Help" -> Help_VERB
      [] cmd.tag = "Noop" -> Noop_VERB
      [] cmd.tag = "Quit" -> Quit_VERB
      [] cmd.tag = "StartTls" -> StartTls_VERB
      [] OTHER -> cmd.verb

\* The split of a line at its first SP into verb and args.
SplitVerb(line) ==
    LET index == find(line, SP)
    IN  IF index >= 0
        THEN [verb |-> SubSeq(line, 1, index),
              args |-> SubSeq(line, index + 2, Len(line))]
        ELSE [verb |-> line, args |-> <<>>]

\* impl TryFrom<Vec<u8>> for Unknown
UnknownTryFrom(line) ==
    LET p == SplitVerb(line)
    IN  IF ~from_utf8_ok(p.verb)
        THEN [ok |-> FALSE, cmd |-> Cmd("Unknown", <<>>, <<>>)]
        ELSE [ok |-> TRUE,
              cmd |-> Cmd("Unknown", make_ascii_uppercase(p.verb), p.args)]

\* impl TryFrom<Vec<u8>> for Command
CommandTryFrom(line) ==
    LET p == SplitVerb(line)
        verb == make_ascii_uppercase(p.verb)
        args == p.args
        Parsed(tag, a) == [ok |-> TRUE, cmd |-> Cmd(tag, <<>>, a)]
    IN  IF ~from_utf8_ok(p.verb)
        THEN [ok |-> FALSE, cmd |-> Cmd("Unknown", <<>>, <<>>)]
        ELSE CASE verb = Helo_VERB -> Parsed("Helo", args)
               [] verb = Ehlo_VERB -> Parsed("Ehlo", args)
               [] verb = Mail_VERB -> Parsed("Mail", args)
               [] verb = Rcpt_VERB -> Parsed("Rcpt", args)
               [] verb = Data_VERB -> Parsed("Data", <<>>)
               [] verb = Rset_VERB -> Parsed("Rset", <<>>)
               [] verb = Vrfy_VERB -> Parsed("Vrfy", args)
               [] verb = Expn_VERB -> Parsed("Expn", args)
               [] verb = Help_VERB -> Parsed("Help", args)
               [] verb = Noop_VERB -> Parsed("Noop", args)
               [] verb = Quit_VERB -> Parsed("Quit", <<>>)
               [] verb = StartTls_VERB -> Parsed("StartTls", <<>>)
               [] OTHER -> UnknownTryFrom(line)

-----------------------------------------------------------------------------
(* Replies: smtp/spec/core/reply.rs *)

\* impl TryFrom<u8> for ReplyType
ReplyTypeTryFrom(octet) ==
    CASE octet = 50 -> [ok |-> TRUE, v |-> "PositiveCompletionReply"]
      [] octet = 51 -> [ok |-> TRUE, v |-> "PositiveIntermediateReply"]
      [] octet = 52 -> [ok |-> TRUE, v |-> "TransientNegativeCompletionReply"]
      [] octet = 53 -> [ok |-> TRUE, v |-> "PermanentNegativeCompletionReply"]
      [] OTHER -> [ok |-> FALSE, v |-> "PermanentNegativeCompletionReply"]

\* ReplyType::is_positive
is_positive(x) ==
    x \in {"PositiveCompletionReply", "PositiveIntermediateReply"}

\* impl TryFrom<u8> for ReplyCategory: '0'..'5' are Syntax .. MailSystem
ReplyCategoryTryFrom(octet) ==
    IF octet >= 48 /\ octet <= 53
    THEN [ok |-> TRUE, v |-> octet - 48]
    ELSE [ok |-> FALSE, v |-> 0]

\* impl TryFrom<u8> for ReplyGradation
ReplyGradationTryFrom(octet) ==
    IF octet >= 48 /\ octet <= 57
    THEN [ok |-> TRUE, v |-> octet - 48]
    ELSE [ok |-> FALSE, v |-> 0]

NoCode == [x |-> "PermanentNegativeCompletionReply", y |-> 0, z |-> 0]

\* impl TryFrom<Vec<u8>> for ReplyCode
ReplyCodeTryFrom(line) ==
    IF Len(line) # 3 THEN [ok |-> FALSE, code |-> NoCode]
    ELSE LET response_type == ReplyTypeTryFrom(line[1])
             category == ReplyCategoryTryFrom(line[2])
             gradation == ReplyGradationTryFrom(line[3])
         IN  IF response_type.ok /\ category.ok /\ gradation.ok
             THEN [ok |-> TRUE,
                   code |-> [x |-> response_type.v, y |-> category.v,
                             z |-> gradation.v]]
             ELSE [ok |-> FALSE, code |-> NoCode]

NoLine == [code |-> NoCode, last |-> TRUE, text |-> <<>>]

\* impl TryFrom<Vec<u8>> for ReplyLine.  res is "Ok", "Err" or "Panic":
\* after the code is drained, line.drain(0..1) on an empty vector is out of
\* range and panics (Vec::drain), so a line of exactly three bytes aborts.
ReplyLineTryFrom(line) ==
    IF Len(line) < 3 THEN [res |-> "Err", line |-> NoLine]
    ELSE LET code == ReplyCodeTryFrom(SubSeq(line, 1, 3))
             rest == SubSeq(line, 4, Len(line))
         IN  IF ~code.ok THEN [res |-> "Err", line |-> NoLine]
             ELSE IF Len(rest) < 1 THEN [res |-> "Panic", line |-> NoLine]
             ELSE IF rest[1] = 32
                  THEN [res |-> "Ok",
                        line |-> [code |-> code.code, last |-> TRUE,
                                  text |-> Tail(rest)]]
             ELSE IF rest[1] = 45
                  THEN [res |-> "Ok",
                        line |-> [code |-> code.code, last |-> FALSE,
                                  text |-> Tail(rest)]]
             ELSE [res |-> "Err", line |-> NoLine]

\* Faulty variant: the code of the last line
ReplyCodeOfLast(reply) ==
    IF Len(reply) > 0 THEN reply[Len(reply)].code
    ELSE [x |-> "PermanentNegativeCompletionReply", y |-> 0, z |-> 0]

\* Reply::code: the code of the first line
ReplyCodeOf(reply) ==
    IF Len(reply) > 0 THEN reply[1].code
    ELSE [x |-> "PermanentNegativeCompletionReply", y |-> 0, z |-> 0]

-----------------------------------------------------------------------------
(* The session: smtp/agent/session.rs.  The operators below work on a      *)
(* record s holding the session's fields (and the history fields); an      *)
(* action hands the current state to one of them and stores the outcome.   *)

\* The stats sink is outside the session: each of its calls may fail.  The
\* outcome of a call is given by fail, the set of positions (among the sink
\* calls of one session call) at which the sink returns an error.
Notify(s, ev, fail) ==
    LET ok == (Len(s.notified) + 1) \notin fail
    IN  [s EXCEPT !.notified = Append(@, [ev EXCEPT !.ok = ok]),
                  !.sink_calls[ev.ev] = @ + 1]

\* Whether the sink call just made returned Ok.
Notified(s) == s.notified[Len(s.notified)].ok

\* trait StatsSink: the notifications
Notifications ==
    {"connect", "connect_reply", "command", "command_reply",
     "transaction_commit", "transaction_commit_reply", "parse_error"}

\* A sink call: which notification, with which verb and code, and whether
\* the sink returned Ok.  seq, nth and pushed are history: for a reply
\* notification, the matched entry's number and what was recorded of it when
\* it was pushed, and the number of the Reply.
NotPushed == [kind |-> "None", verb |-> <<>>]
Event(name, verb, code) ==
    [ev |-> name, verb |-> verb, code |-> code, ok |-> TRUE,
     seq |-> 0, nth |-> 0, pushed |-> NotPushed]
ReplyEvent(s, pending, name, verb, code) ==
    [ev |-> name, verb |-> verb, code |-> code, ok |-> TRUE,
     seq |-> pending.seq, nth |-> s.n_completed, pushed |-> pending.pushed]

\* An error return: the `?` on the sink call at position `at` of this call.
Err(s) == [s EXCEPT !.result = [res |-> "Err", at |-> Len(s.notified)]]
Ok(s) == [s EXCEPT !.result = [res |-> "Ok", at |-> 0]]
Panic(s) == [s EXCEPT !.result = [res |-> "Panic", at |-> 0]]

\* PendingReply: Connect | Command(Command) | Commit(Transaction)
NoCmd == Cmd("None", <<>>, <<>>)
\* impl Default for Transaction
DefaultTransaction == [from |-> <<>>, to |-> <<>>, body |-> <<>>]
\* (seq, after and pushed are history, filled in by push_back)
Pending(kind, cmd, tx) ==
    [kind |-> kind, cmd |-> cmd, tx |-> tx, seq |-> 0, after |-> 0,
     pushed |-> NotPushed]
PendingConnect == Pending("Connect", NoCmd, DefaultTransaction)
PendingCommand(cmd) == Pending("Command", cmd, DefaultTransaction)
PendingCommit(tx) == Pending("Commit", NoCmd, tx)

\* pending_replies.push_back; the entry is numbered in push order and keeps
\* the number of Replies completed before it was pushed
push_back(s, pending) ==
    [s EXCEPT !.pending_replies =
                  Append(@, [pending EXCEPT
                                !.seq = s.n_enqueued + 1,
                                !.after = s.n_completed,
                                !.pushed = [kind |-> pending.kind,
                                            verb |-> CommandVerb(pending.cmd)]]),
              !.n_enqueued = @ + 1]

\* Option::get_or_insert_with(Default::default) on active_transaction
get_or_insert(s) ==
    IF s.active_transaction = None THEN DefaultTransaction
    ELSE s.active_transaction[1]

\* Faulty variant: only the recipients and the body are discarded
reset_keeping_sender(s) ==
    IF s.active_transaction = None THEN s
    ELSE [s EXCEPT !.active_transaction =
             Some([DefaultTransaction EXCEPT
                      !.from = s.active_transaction[1].from])]

\* Faulty variant: a reset starts the session over, awaiting a greeting
reset_to_connect(s) == [s EXCEPT !.active_transaction = None, !.mode = "Connect"]

\* Session::reset
reset(s) == [s EXCEPT !.active_transaction = None]

\* Faulty variant: fallback drops what is buffered and pending
fallback_clearing(s, err, fail) ==
    LET n == Notify([s EXCEPT !.fell_back = TRUE, !.fault = err],
                    Event("parse_error", <<>>, NoCode), fail)
    IN  IF ~Notified(n) THEN Err(n)
        ELSE Ok([n EXCEPT !.mode = "PassThrough",
                          !.downstream_buffer = <<>>,
                          !.upstream_buffer = <<>>,
                          !.pending_replies = <<>>])

\* Session::fallback.  err is the error it is given: "command" (a command
\* line that does not parse), "reply" (a reply line that does not parse),
\* "desync" (a Reply with nothing pending) or "sink" (a failed sink call).
fallback(s, err, fail) ==
    LET n == Notify([s EXCEPT !.fell_back = TRUE, !.fault = err],
                    Event("parse_error", <<>>, NoCode), fail)
    IN  IF ~Notified(n) THEN Err(n)
        ELSE Ok([n EXCEPT !.mode = "PassThrough"])

\* Session::next_command
next_command(s) ==
    LET l == next_line(s.downstream_buffer)
        t == [s EXCEPT !.downstream_buffer = l.buffer,
                       !.lines_taken = @ + 1]
    IN  IF ~l.some THEN [res |-> "None", s |-> s, cmd |-> NoCmd]
        ELSE LET c == CommandTryFrom(l.line)
             IN  IF c.ok THEN [res |-> "Some", s |-> t, cmd |-> c.cmd]
                 ELSE [res |-> "Err", s |-> t, cmd |-> NoCmd]

\* Session::next_body
RECURSIVE session_next_body(_)
session_next_body(s) ==
    LET l == next_line(s.downstream_buffer)
        end == s.next_body # <<>> /\ l.line = <<46>>
        t == [s EXCEPT !.downstream_buffer = l.buffer,
                       !.lines_taken = @ + 1,
                       !.next_body = @ \o l.line \o CR_LF,
                       !.phase_body = @ \o l.line \o CR_LF]
    IN  IF ~l.some THEN [some |-> FALSE, s |-> s, body |-> <<>>]
        ELSE IF end
             THEN [some |-> TRUE, s |-> [t EXCEPT !.next_body = <<>>,
                                                  !.phase_body = <<>>],
                   body |-> t.next_body]
             ELSE session_next_body(t)

\* Session::next_reply
RECURSIVE session_next_reply(_)
session_next_reply(s) ==
    LET l == next_line(s.upstream_buffer)
        t == [s EXCEPT !.upstream_buffer = l.buffer,
                       !.lines_taken = @ + 1]
        line == ReplyLineTryFrom(l.line)
        u == [t EXCEPT !.next_reply =
                 IF @ = None THEN Some(<<line.line>>)
                 ELSE Some(Append(@[1], line.line))]
    IN  IF ~l.some THEN [res |-> "None", s |-> s, reply |-> <<>>]
        ELSE IF line.res # "Ok" THEN [res |-> line.res, s |-> t, reply |-> <<>>]
        ELSE IF line.line.last
             THEN [res |-> "Some",
                   s |-> [u EXCEPT !.next_reply = None,
                                   !.n_completed = @ + 1],
                   reply |-> u.next_reply[1]]
             ELSE session_next_reply(u)

\* History of the replies matched to commands: which DATA entry was replied
\* to positively last, and the arguments of the RCPT commands replied to
\* positively since the last positive reply to HELO, EHLO or RSET.
Replied(s, pending, reply) ==
    LET positive == is_positive(ReplyCodeOf(reply).x)
        tag == pending.cmd.tag
    IN  [s EXCEPT
            !.opened_by = IF positive /\ tag = "Data" THEN pending.seq ELSE @,
            !.phase_body = IF positive /\ tag = "Data" /\ s.mode # "Data"
                           THEN <<>> ELSE @,
            !.rcpt_log = CASE positive /\ tag = "Rcpt" ->
                                 Append(@, pending.cmd.args)
                           [] positive /\ tag \in {"Helo", "Ehlo", "Rset"} ->
                                 <<>>
                           [] OTHER -> @]

\* Faulty variant: a positive reply to DATA starts a new transaction
command_handle_reply_data_fresh(cmd, s, reply) ==
    LET positive == is_positive(ReplyCodeOf(reply).x)
    IN  CASE cmd.tag \in {"Helo", "Ehlo", "Rset"} ->
                IF positive THEN reset(s) ELSE s
          [] cmd.tag = "Mail" ->
                IF positive
                THEN [s EXCEPT !.active_transaction =
                         Some([get_or_insert(s) EXCEPT !.from = cmd.args])]
                ELSE s
          [] cmd.tag = "Rcpt" ->
                IF positive
                THEN [s EXCEPT !.active_transaction =
                         Some([get_or_insert(s) EXCEPT
                                  !.to = Append(@, cmd.args)])]
                ELSE s
          [] cmd.tag = "Data" ->
                IF positive
                THEN [s EXCEPT !.active_transaction =
                         Some(DefaultTransaction),
                               !.mode = "Data"]
                ELSE s
          [] cmd.tag \in {"StartTls", "Unknown"} ->
                IF positive THEN [s EXCEPT !.mode = "PassThrough"] ELSE s
          [] OTHER -> s

\* Faulty variant: a positive reply to STARTTLS has no effect
command_handle_reply_starttls_ignored(cmd, s, reply) ==
    LET positive == is_positive(ReplyCodeOf(reply).x)
    IN  CASE cmd.tag \in {"Helo", "Ehlo", "Rset"} ->
                IF positive THEN reset(s) ELSE s
          [] cmd.tag = "Mail" ->
                IF positive
                THEN [s EXCEPT !.active_transaction =
                         Some([get_or_insert(s) EXCEPT !.from = cmd.args])]
                ELSE s
          [] cmd.tag = "Rcpt" ->
                IF positive
                THEN [s EXCEPT !.active_transaction =
                         Some([get_or_insert(s) EXCEPT
                                  !.to = Append(@, cmd.args)])]
                ELSE s
          [] cmd.tag = "Data" ->
                IF positive
                THEN [s EXCEPT !.active_transaction =
                         Some([get_or_insert(s) EXCEPT !.body = <<>>]),
                               !.mode = "Data"]
                ELSE s
          [] cmd.tag = "Unknown" ->
                IF positive THEN [s EXCEPT !.mode = "PassThrough"] ELSE s
          [] OTHER -> s

\* Faulty variant: a positive reply to an unknown command has no effect
command_handle_reply_unknown_ignored(cmd, s, reply) ==
    LET positive == is_positive(ReplyCodeOf(reply).x)
    IN  CASE cmd.tag \in {"Helo", "Ehlo", "Rset"} ->
                IF positive THEN reset(s) ELSE s
          [] cmd.tag = "Mail" ->
                IF positive
                THEN [s EXCEPT !.active_transaction =
                         Some([get_or_insert(s) EXCEPT !.from = cmd.args])]
                ELSE s
          [] cmd.tag = "Rcpt" ->
                IF positive
                THEN [s EXCEPT !.active_transaction =
                         Some([get_or_insert(s) EXCEPT
                                  !.to = Append(@, cmd.args)])]
                ELSE s
          [] cmd.tag = "Data" ->
                IF positive
                THEN [s EXCEPT !.active_transaction =
                         Some([get_or_insert(s) EXCEPT !.body = <<>>]),
                               !.mode = "Data"]
                ELSE s
          [] cmd.tag = "StartTls" ->
                IF positive THEN [s EXCEPT !.mode = "PassThrough"] ELSE s
          [] OTHER -> s

\* Faulty variant: a positive reply to MAIL starts a new transaction
command_handle_reply_mail_fresh(cmd, s, reply) ==
    LET positive == is_positive(ReplyCodeOf(reply).x)
    IN  CASE cmd.tag \in {"Helo", "Ehlo", "Rset"} ->
                IF positive THEN reset(s) ELSE s
          [] cmd.tag = "Mail" ->
                IF positive
                THEN [s EXCEPT !.active_transaction =
                         Some([DefaultTransaction EXCEPT !.from = cmd.args])]
                ELSE s
          [] cmd.tag = "Rcpt" ->
                IF positive
                THEN [s EXCEPT !.active_transaction =
                         Some([get_or_insert(s) EXCEPT
                                  !.to = Append(@, cmd.args)])]
                ELSE s
          [] cmd.tag = "Data" ->
                IF positive
                THEN [s EXCEPT !.active_transaction =
                         Some([get_or_insert(s) EXCEPT !.body = <<>>]),
                               !.mode = "Data"]
                ELSE s
          [] cmd.tag \in {"StartTls", "Unknown"} ->
                IF positive THEN [s EXCEPT !.mode = "PassThrough"] ELSE s
          [] OTHER -> s

\* Faulty variant: a positive reply to RCPT puts the recipient first
command_handle_reply_rcpt_prepended(cmd, s, reply) ==
    LET positive == is_positive(ReplyCodeOf(reply).x)
    IN  CASE cmd.tag \in {"Helo", "Ehlo", "Rset"} ->
                IF positive THEN reset(s) ELSE s
          [] cmd.tag = "Mail" ->
                IF positive
                THEN [s EXCEPT !.active_transaction =
                         Some([get_or_insert(s) EXCEPT !.from = cmd.args])]
                ELSE s
          [] cmd.tag = "Rcpt" ->
                IF positive
                THEN [s EXCEPT !.active_transaction =
                         Some([get_or_insert(s) EXCEPT
                                  !.to = <<cmd.args>> \o @])]
                ELSE s
          [] cmd.tag = "Data" ->
                IF positive
                THEN [s EXCEPT !.active_transaction =
                         Some([get_or_insert(s) EXCEPT !.body = <<>>]),
                               !.mode = "Data"]
                ELSE s
          [] cmd.tag \in {"StartTls", "Unknown"} ->
                IF positive THEN [s EXCEPT !.mode = "PassThrough"] ELSE s
          [] OTHER -> s

\* Faulty variant: a positive reply to QUIT discards the transaction
command_handle_reply_quit_resets(cmd, s, reply) ==
    LET positive == is_positive(ReplyCodeOf(reply).x)
    IN  CASE cmd.tag \in {"Helo", "Ehlo", "Rset"} ->
                IF positive THEN reset(s) ELSE s
          [] cmd.tag = "Mail" ->
                IF positive
                THEN [s EXCEPT !.active_transaction =
                         Some([get_or_insert(s) EXCEPT !.from = cmd.args])]
                ELSE s
          [] cmd.tag = "Rcpt" ->
                IF positive
                THEN [s EXCEPT !.active_transaction =
                         Some([get_or_insert(s) EXCEPT
                                  !.to = Append(@, cmd.args)])]
                ELSE s
          [] cmd.tag = "Data" ->
                IF positive
                THEN [s EXCEPT !.active_transaction =
                         Some([get_or_insert(s) EXCEPT !.body = <<>>]),
                               !.mode = "Data"]
                ELSE s
          [] cmd.tag \in {"StartTls", "Unknown"} ->
                IF positive THEN [s EXCEPT !.mode = "PassThrough"] ELSE s
          [] cmd.tag = "Quit" ->
                IF positive THEN reset(s) ELSE s
          [] OTHER -> s

\* impl ReplyHandler for Command and for each of its variants
command_handle_reply(cmd, s, reply) ==
    LET positive == is_positive(ReplyCodeOf(reply).x)
    IN  CASE cmd.tag \in {"Helo", "Ehlo", "Rset"} ->
                IF positive THEN reset(s) ELSE s
          [] cmd.tag = "Mail" ->
                IF positive
                THEN [s EXCEPT !.active_transaction =
                         Some([get_or_insert(s) EXCEPT !.from = cmd.args])]
                ELSE s
          [] cmd.tag = "Rcpt" ->
                IF positive
                THEN [s EXCEPT !.active_transaction =
                         Some([get_or_insert(s) EXCEPT
                                  !.to = Append(@, cmd.args)])]
                ELSE s
          [] cmd.tag = "Data" ->
                IF positive
                THEN [s EXCEPT !.active_transaction =
                         Some([get_or_insert(s) EXCEPT !.body = <<>>]),
                               !.mode = "Data"]
                ELSE s
          [] cmd.tag \in {"StartTls", "Unknown"} ->
                IF positive THEN [s EXCEPT !.mode = "PassThrough"] ELSE s
          [] OTHER -> s

\* Faulty variant: the newest entry is taken instead of the oldest
pop_back(s) ==
    [pending |-> s.pending_replies[Len(s.pending_replies)],
     s |-> [s EXCEPT !.pending_replies = SubSeq(@, 1, Len(@) - 1),
                     !.n_matched = @ + 1]]

\* Faulty variant: the head entry is read and left on the queue
front(s) ==
    [pending |-> Head(s.pending_replies),
     s |-> [s EXCEPT !.n_matched = @ + 1]]

\* VecDeque::pop_front on a non-empty pending_replies
pop_front(s) ==
    [pending |-> Head(s.pending_replies),
     s |-> [s EXCEPT !.pending_replies = Tail(@), !.n_matched = @ + 1]]

\* Faulty variant: the Connect arm notifies the sink and leaves Mode as it is
handle_reply_connect_keeps_mode(s, reply, fail) ==
    IF s.pending_replies = <<>> THEN [ok |-> FALSE, err |-> "desync", s |-> s]
    ELSE LET p == pop_front(s)
             pending == p.pending
             code == ReplyCodeOf(reply)
         IN  CASE pending.kind = "Connect" ->
                    LET n == Notify(p.s,
                                    ReplyEvent(p.s, pending, "connect_reply",
                                               <<>>, code),
                                    fail)
                    IN  IF ~Notified(n)
                        THEN [ok |-> FALSE, err |-> "sink", s |-> n]
                        ELSE [ok |-> TRUE, err |-> "", s |-> n]
               [] pending.kind = "Command" ->
                    LET n == Notify(p.s,
                                    ReplyEvent(p.s, pending, "command_reply",
                                               CommandVerb(pending.cmd), code),
                                    fail)
                    IN  IF ~Notified(n)
                        THEN [ok |-> FALSE, err |-> "sink", s |-> n]
                        ELSE [ok |-> TRUE, err |-> "",
                              s |-> command_handle_reply(
                                        pending.cmd,
                                        Replied(n, pending, reply), reply)]
               [] OTHER ->
                    LET n == Notify(p.s,
                                    ReplyEvent(p.s, pending,
                                               "transaction_commit_reply",
                                               <<>>, code),
                                    fail)
                    IN  [ok |-> Notified(n),
                         err |-> IF Notified(n) THEN "" ELSE "sink", s |-> n]

\* Faulty variant: the reply to a committed body is reported as a reply to
\* the DATA command
handle_reply_commit_as_data(s, reply, fail) ==
    IF s.pending_replies = <<>> THEN [ok |-> FALSE, err |-> "desync", s |-> s]
    ELSE LET p == pop_front(s)
             pending == p.pending
             code == ReplyCodeOf(reply)
         IN  CASE pending.kind = "Connect" ->
                    LET n == Notify(p.s,
                                    ReplyEvent(p.s, pending, "connect_reply",
                                               <<>>, code),
                                    fail)
                    IN  IF ~Notified(n)
                        THEN [ok |-> FALSE, err |-> "sink", s |-> n]
                        ELSE [ok |-> TRUE, err |-> "",
                              s |-> [n EXCEPT !.mode = "Command"]]
               [] pending.kind = "Command" ->
                    LET n == Notify(p.s,
                                    ReplyEvent(p.s, pending, "command_reply",
                                               CommandVerb(pending.cmd), code),
                                    fail)
                    IN  IF ~Notified(n)
                        THEN [ok |-> FALSE, err |-> "sink", s |-> n]
                        ELSE [ok |-> TRUE, err |-> "",
                              s |-> command_handle_reply(
                                        pending.cmd,
                                        Replied(n, pending, reply), reply)]
               [] OTHER ->
                    LET n == Notify(p.s,
                                    ReplyEvent(p.s, pending, "command_reply",
                                               Data_VERB, code),
                                    fail)
                    IN  [ok |-> Notified(n),
                         err |-> IF Notified(n) THEN "" ELSE "sink", s |-> n]

\* Session::handle_reply.  ok is FALSE when it returns an error, err: the
\* sink failed, or nothing was pending.
handle_reply(s, reply, fail) ==
    IF s.pending_replies = <<>> THEN [ok |-> FALSE, err |-> "desync", s |-> s]
    ELSE LET p == pop_front(s)
             pending == p.pending
             code == ReplyCodeOf(reply)
         IN  CASE pending.kind = "Connect" ->
                    LET n == Notify(p.s,
                                    ReplyEvent(p.s, pending, "connect_reply",
                                               <<>>, code),
                                    fail)
                    IN  IF ~Notified(n)
                        THEN [ok |-> FALSE, err |-> "sink", s |-> n]
                        ELSE [ok |-> TRUE, err |-> "",
                              s |-> [n EXCEPT !.mode = "Command"]]
               [] pending.kind = "Command" ->
                    LET n == Notify(p.s,
                                    ReplyEvent(p.s, pending, "command_reply",
                                               CommandVerb(pending.cmd), code),
                                    fail)
                    IN  IF ~Notified(n)
                        THEN [ok |-> FALSE, err |-> "sink", s |-> n]
                        ELSE [ok |-> TRUE, err |-> "",
                              s |-> command_handle_reply(
                                        pending.cmd,
                                        Replied(n, pending, reply), reply)]
               [] OTHER ->
                    LET n == Notify(p.s,
                                    ReplyEvent(p.s, pending,
                                               "transaction_commit_reply",
                                               <<>>, code),
                                    fail)
                    IN  [ok |-> Notified(n),
                         err |-> IF Notified(n) THEN "" ELSE "sink", s |-> n]

\* Faulty variant: a parsed command is notified but no entry is pushed for it
RECURSIVE downstream_loop_forgetful(_, _)
downstream_loop_forgetful(s, fail) ==
    CASE s.mode \in {"Connect", "Command"} ->
            LET c == next_command(s)
            IN  CASE c.res = "Some" ->
                       LET n == Notify(c.s,
                                       Event("command", CommandVerb(c.cmd),
                                             NoCode),
                                       fail)
                       IN  IF ~Notified(n) THEN Err(n)
                           ELSE downstream_loop_forgetful(n, fail)
                  [] c.res = "None" -> Ok(c.s)
                  [] OTHER -> fallback(c.s, "command", fail)
      [] s.mode = "Data" ->
            LET b == session_next_body(s)
                tx == [get_or_insert(b.s) EXCEPT !.body = b.body]
                committed == push_back([b.s EXCEPT !.active_transaction = None,
                                                   !.rcpt_log = <<>>],
                                       PendingCommit(tx))
                n == Notify(committed,
                            Event("transaction_commit", <<>>, NoCode), fail)
            IN  IF ~b.some THEN Ok(b.s)
                ELSE IF ~Notified(n) THEN Err(n)
                ELSE downstream_loop_forgetful([n EXCEPT !.mode = "Command"],
                                               fail)
      [] OTHER -> Ok(s)

\* The drain loop of Session::on_downstream_data
RECURSIVE downstream_loop(_, _)
downstream_loop(s, fail) ==
    CASE s.mode \in {"Connect", "Command"} ->
            LET c == next_command(s)
            IN  CASE c.res = "Some" ->
                       LET n == Notify(c.s,
                                       Event("command", CommandVerb(c.cmd),
                                             NoCode),
                                       fail)
                       IN  IF ~Notified(n) THEN Err(n)
                           ELSE downstream_loop(
                                    push_back(n, PendingCommand(c.cmd)), fail)
                  [] c.res = "None" -> Ok(c.s)
                  [] OTHER -> fallback(c.s, "command", fail)
      [] s.mode = "Data" ->
            LET b == session_next_body(s)
                tx == [get_or_insert(b.s) EXCEPT !.body = b.body]
                committed == push_back([b.s EXCEPT !.active_transaction = None,
                                                   !.rcpt_log = <<>>],
                                       PendingCommit(tx))
                n == Notify(committed,
                            Event("transaction_commit", <<>>, NoCode), fail)
            IN  IF ~b.some THEN Ok(b.s)
                ELSE IF ~Notified(n) THEN Err(n)
                ELSE downstream_loop([n EXCEPT !.mode = "Command"], fail)
      [] OTHER -> Ok(s)

\* Faulty variant: the call returns after the first Reply it has handled
upstream_loop_one_reply(s, fail) ==
    IF s.mode = "PassThrough" THEN Ok(s)
    ELSE LET r == session_next_reply(s)
         IN  CASE r.res = "Some" ->
                    LET h == handle_reply(r.s, r.reply, fail)
                    IN  IF h.ok THEN Ok(h.s)
                        ELSE fallback(h.s, h.err, fail)
               [] r.res = "None" -> Ok(r.s)
               [] r.res = "Panic" -> Panic(r.s)
               [] OTHER -> fallback(r.s, "reply", fail)

\* The drain loop of Session::on_upstream_data
RECURSIVE upstream_loop(_, _)
upstream_loop(s, fail) ==
    IF s.mode = "PassThrough" THEN Ok(s)
    ELSE LET r == session_next_reply(s)
         IN  CASE r.res = "Some" ->
                    LET h == handle_reply(r.s, r.reply, fail)
                    IN  IF h.ok THEN upstream_loop(h.s, fail)
                        ELSE fallback(h.s, h.err, fail)
               [] r.res = "None" -> Ok(r.s)
               [] r.res = "Panic" -> Panic(r.s)
               [] OTHER -> fallback(r.s, "reply", fail)

\* A call starts with no sink call made and no line taken.
Enter(s, call, data) ==
    [s EXCEPT !.notified = <<>>, !.lines_taken = 0, !.last_call = call,
              !.last_data = data, !.fault = "none"]

\* Faulty variant: the entry is pushed before the sink is called
on_new_conection_push_first(s0, fail) ==
    LET s == push_back(Enter(s0, "on_new_conection", <<>>), PendingConnect)
        n == Notify(s, Event("connect", <<>>, NoCode), fail)
    IN  IF ~Notified(n) THEN Err(n) ELSE Ok(n)

\* Session::on_new_conection
on_new_conection(s0, fail) ==
    LET s == Enter(s0, "on_new_conection", <<>>)
        n == Notify(s, Event("connect", <<>>, NoCode), fail)
    IN  IF ~Notified(n) THEN Err(n)
        ELSE Ok(push_back(n, PendingConnect))

\* Faulty variant: the new bytes replace the buffered ones
on_downstream_data_overwriting(s0, new_data, fail) ==
    LET s == Enter(s0, "on_downstream_data", new_data)
    IN  IF s.mode = "PassThrough" THEN Ok(s)
        ELSE downstream_loop([s EXCEPT !.downstream_buffer = new_data], fail)

\* Faulty variant: PassThrough is not told apart: the bytes are buffered
on_downstream_data_buffering(s0, new_data, fail) ==
    LET s == Enter(s0, "on_downstream_data", new_data)
    IN  downstream_loop([s EXCEPT !.downstream_buffer = @ \o new_data], fail)

\* Session::on_downstream_data
on_downstream_data(s0, new_data, fail) ==
    LET s == Enter(s0, "on_downstream_data", new_data)
    IN  IF s.mode = "PassThrough" THEN Ok(s)
        ELSE downstream_loop(
                 [s EXCEPT !.downstream_buffer = @ \o new_data], fail)

\* Faulty variant: PassThrough is not told apart: replies are handled in every mode
RECURSIVE upstream_loop_any_mode(_, _)
upstream_loop_any_mode(s, fail) ==
    LET r == session_next_reply(s)
    IN  CASE r.res = "Some" ->
               LET h == handle_reply(r.s, r.reply, fail)
               IN  IF h.ok THEN upstream_loop_any_mode(h.s, fail)
                   ELSE fallback(h.s, h.err, fail)
          [] r.res = "None" -> Ok(r.s)
          [] r.res = "Panic" -> Panic(r.s)
          [] OTHER -> fallback(r.s, "reply", fail)

on_upstream_data_any_mode(s0, new_data, fail) ==
    LET s == Enter(s0, "on_upstream_data", new_data)
    IN  upstream_loop_any_mode([s EXCEPT !.upstream_buffer = @ \o new_data],
                               fail)

\* Session::on_upstream_data
on_upstream_data(s0, new_data, fail) ==
    LET s == Enter(s0, "on_upstream_data", new_data)
    IN  IF s.mode = "PassThrough" THEN Ok(s)
        ELSE upstream_loop([s EXCEPT !.upstream_buffer = @ \o new_data], fail)

-----------------------------------------------------------------------------
(* The traffic the model feeds to the session.  Each direction is a stream *)
(* of the messages below; a message reaches the session in one call, or,   *)
(* if the session's traffic splits it, in two calls, cut at one of SplitAt.*)

D_Noop == <<78, 79, 79, 80, 13, 10>>   \* 'NOOP\r\n'
D_Mail == <<77, 65, 73, 76, 32, 97, 13, 10>>   \* 'MAIL a\r\n'
D_RcptB == <<82, 67, 80, 84, 32, 98, 13, 10>>   \* 'RCPT b\r\n'
D_RcptC == <<114, 99, 112, 116, 32, 99, 13, 10>>   \* 'rcpt c\r\n'
D_Data == <<68, 65, 84, 65, 13, 10>>   \* 'DATA\r\n'
D_Rset == <<82, 83, 69, 84, 13, 10>>   \* 'RSET\r\n'
D_StartTls == <<83, 84, 65, 82, 84, 84, 76, 83, 13, 10>>   \* 'STARTTLS\r\n'
D_Text == <<104, 105, 13, 10>>   \* 'hi\r\n'
D_Dot == <<46, 13, 10>>   \* '.\r\n'
D_Ehlo == <<101, 104, 108, 111, 32, 120, 13, 10>>   \* 'ehlo x\r\n'
D_DotX == <<46, 46, 120, 13, 10>>   \* '..x\r\n'
D_BadVerb == <<255, 13, 10>>   \* '\xff\r\n'
D_BodyThenNoop == <<104, 105, 13, 10, 46, 13, 10, 78, 79, 79, 80, 13, 10>>   \* 'hi\r\n.\r\nNOOP\r\n'
D_MailFrom == <<109, 97, 105, 108, 32, 70, 58, 60, 97, 62, 32, 98, 13, 10>>   \* 'mail F:<a> b\r\n'
D_Helo == <<72, 69, 76, 79, 32, 120, 13, 10>>   \* 'HELO x\r\n'
D_Vrfy == <<86, 82, 70, 89, 32, 117, 13, 10>>   \* 'VRFY u\r\n'
D_Expn == <<101, 120, 112, 110, 32, 108, 13, 10>>   \* 'expn l\r\n'
D_Help == <<72, 69, 76, 80, 13, 10>>   \* 'HELP\r\n'
D_Quit == <<81, 117, 105, 116, 13, 10>>   \* 'Quit\r\n'
D_BadThenNoop == <<255, 13, 10, 78, 79, 79, 80, 13, 10>>   \* '\xff\r\nNOOP\r\n'
D_MailRcpt == <<77, 65, 73, 76, 32, 97, 13, 10, 82, 67, 80, 84, 32, 98, 13, 10>>   \* 'MAIL a\r\nRCPT b\r\n'

U_220 == <<50, 50, 48, 32, 107, 13, 10>>   \* '220 k\r\n'
U_250 == <<50, 53, 48, 32, 107, 13, 10>>   \* '250 k\r\n'
U_354 == <<51, 53, 52, 32, 103, 13, 10>>   \* '354 g\r\n'
U_550 == <<53, 53, 48, 32, 110, 13, 10>>   \* '550 n\r\n'
U_250More == <<50, 53, 48, 45, 97, 13, 10>>   \* '250-a\r\n'
U_Bare250 == <<50, 53, 48, 13, 10>>   \* '250\r\n'
U_BadCode == <<54, 53, 48, 32, 120, 13, 10>>   \* '650 x\r\n'
U_BadSep == <<50, 53, 48, 120, 13, 10>>   \* '250x\r\n'
U_Short == <<50, 13, 10>>   \* '2\r\n'
U_BadThenGood == <<54, 53, 48, 32, 120, 13, 10, 50, 50, 48, 32, 107, 13, 10>>   \* '650 x\r\n220 k\r\n'
U_TwoReplies == <<50, 53, 48, 32, 107, 13, 10, 50, 50, 48, 32, 107, 13, 10>>   \* '250 k\r\n220 k\r\n'

\* The sessions watched: each is a client and a server with the messages
\* they send, the messages that may arrive split, whether the stats sink
\* of the session may fail, and how many entries the session may push beyond
\* MaxEnqueued.
Traffic ==
    [mail |->       \* a mail transaction
        [down |-> {D_Mail, D_RcptB, D_Data, D_Dot},
         up |-> {U_250, U_550},
         split |-> {}, sink_fails |-> FALSE, longer |-> 0],
     rcpt |->       \* the envelope: sender, recipients, resets
        [down |-> {D_MailFrom, D_RcptB, D_RcptC, D_Rset, D_Ehlo},
         up |-> {U_250, U_550},
         split |-> {}, sink_fails |-> FALSE, longer |-> 0],
     data |->       \* the body
        [down |-> {D_Data, D_Dot, D_DotX, D_BodyThenNoop},
         up |-> {U_354, U_550},
         split |-> {}, sink_fails |-> FALSE, longer |-> 0],
     pipeline |->   \* pipelined commands, chunked and multi-line replies
        [down |-> {D_Noop, D_MailRcpt},
         up |-> {U_220, U_550, U_250More, U_TwoReplies},
         split |-> {D_Noop, U_220}, sink_fails |-> FALSE, longer |-> 0],
     query |->      \* commands whose replies have no effect on the session
        [down |-> {D_Mail, D_Helo, D_Vrfy, D_Expn, D_Help, D_Quit},
         up |-> {U_250, U_550},
         split |-> {}, sink_fails |-> FALSE, longer |-> 0],
     tls |->        \* commands after which the traffic is opaque
        [down |-> {D_StartTls, D_Text, D_Data, D_Rset},
         up |-> {U_220, U_550},
         split |-> {}, sink_fails |-> FALSE, longer |-> 0],
     broken |->     \* malformed traffic
        [down |-> {D_Noop, D_BadVerb},
         up |-> {U_220, U_Bare250, U_BadCode, U_BadSep, U_Short},
         split |-> {}, sink_fails |-> TRUE, longer |-> 0],
     lossy |->      \* malformed lines amid buffered and pending traffic
        [down |-> {D_Data, D_BadThenNoop},
         up |-> {U_220, U_BadThenGood},
         split |-> {D_Data}, sink_fails |-> FALSE, longer |-> 0],
     aborted |->    \* a body and a command in one message, a failing sink
        [down |-> {D_Data, D_BodyThenNoop},
         up |-> {U_354},
         split |-> {}, sink_fails |-> TRUE, longer |-> 0],
     resumed |->    \* a body abandoned at a greeting and a second body
        [down |-> {D_Data, D_Dot},
         up |-> {U_354},
         split |-> {}, sink_fails |-> FALSE, longer |-> 1],
     sink |->       \* a failing stats sink
        [down |-> {D_Data, D_Dot},
         up |-> {U_354},
         split |-> {}, sink_fails |-> TRUE, longer |-> 0]]

\* After how many bytes the first chunk of a message sent in two chunks
\* ends: inside the first word, or between CR and LF.
SplitAt(data) == {2, Len(data) - 1}

\* Bounds of the model
MaxEnqueued == 3      \* entries pushed on pending_replies during a run
MaxCompleted == 3     \* Replies completed during a run
MaxBody == 8          \* bytes in next_body when a call returns
MaxReplyLines == 2    \* lines of the in-progress Reply when a call returns
MaxSinkCall == 2      \* the sink may fail at its 1st .. MaxSinkCall-th call
MaxFailedCalls == 1   \* session calls during which the sink fails
MaxConnects == 1      \* calls of on_new_conection

\* What the sink does during one session call: it fails at no call, at one
\* call, or at one call and at the next (the parse-error notification that
\* fallback makes after a failed reply notification).
SinkOutcomes ==
    {{}} \cup {{i} : i \in 1..MaxSinkCall} \cup {{i, i + 1} : i \in 1..MaxSinkCall}

-----------------------------------------------------------------------------
(* State, Init and the actions *)

Session ==
    [downstream_buffer |-> downstream_buffer,
     upstream_buffer |-> upstream_buffer,
     mode |-> mode,
     next_reply |-> next_reply,
     next_body |-> next_body,
     pending_replies |-> pending_replies,
     active_transaction |-> active_transaction,
     notified |-> notified,
     result |-> result,
     last_call |-> last_call,
     last_data |-> last_data,
     fault |-> fault,
     lines_taken |-> lines_taken,
     n_enqueued |-> n_enqueued,
     n_completed |-> n_completed,
     fell_back |-> fell_back,
     opened_by |-> opened_by,
     rcpt_log |-> rcpt_log,
     phase_body |-> phase_body,
     sink_calls |-> sink_calls,
     n_matched |-> n_matched]

Store(r) ==
    /\ downstream_buffer' = r.downstream_buffer
    /\ upstream_buffer' = r.upstream_buffer
    /\ mode' = r.mode
    /\ next_reply' = r.next_reply
    /\ next_body' = r.next_body
    /\ pending_replies' = r.pending_replies
    /\ active_transaction' = r.active_transaction
    /\ notified' = r.notified
    /\ result' = r.result
    /\ last_call' = r.last_call
    /\ last_data' = r.last_data
    /\ fault' = r.fault
    /\ lines_taken' = r.lines_taken
    /\ n_enqueued' = r.n_enqueued
    /\ n_completed' = r.n_completed
    /\ fell_back' = r.fell_back
    /\ opened_by' = r.opened_by
    /\ rcpt_log' = r.rcpt_log
    /\ phase_body' = r.phase_body
    /\ sink_calls' = r.sink_calls
    /\ n_matched' = r.n_matched

\* The sink failed during the call that left r.
SinkFailed(r) == \E i \in 1..Len(r.notified) : ~r.notified[i].ok

\* The state a call may leave within the bounds of the model.
WithinBounds(r) ==
    /\ r.n_enqueued <= MaxEnqueued + Traffic[traffic].longer
    /\ r.n_completed <= MaxCompleted
    /\ Len(r.next_body) <= MaxBody
    /\ (r.next_reply # None => Len(r.next_reply[1]) <= MaxReplyLines)
    /\ failed_calls + (IF SinkFailed(r) THEN 1 ELSE 0) <= MaxFailedCalls

Account(r) ==
    failed_calls' = failed_calls + (IF SinkFailed(r) THEN 1 ELSE 0)

\* A panic aborts the module: no call follows it.
Alive == result.res # "Panic"

\* Session::new
Init ==
    /\ downstream_buffer = <<>>
    /\ upstream_buffer = <<>>
    /\ mode = "Connect"
    /\ next_reply = None
    /\ next_body = <<>>
    /\ pending_replies = <<>>
    /\ active_transaction = None
    /\ notified = <<>>
    /\ result = [res |-> "Ok", at |-> 0]
    /\ last_call = "new"
    /\ last_data = <<>>
    /\ fault = "none"
    /\ lines_taken = 0
    /\ n_enqueued = 0
    /\ n_completed = 0
    /\ fell_back = FALSE
    /\ opened_by = 0
    /\ rcpt_log = <<>>
    /\ phase_body = <<>>
    /\ sink_calls = [e \in Notifications |-> 0]
    /\ n_matched = 0
    /\ downstream_rest = <<>>
    /\ upstream_rest = <<>>
    /\ failed_calls = 0
    /\ traffic \in DOMAIN Traffic
    /\ connects = 0

\* The chunks the next call may carry, each with what it leaves on the wire:
\* the rest of a message whose first part has been delivered, or else a
\* whole message or the first part of one.
Chunks(rest, messages) ==
    IF rest # <<>> THEN {[data |-> rest, rest |-> <<>>]}
    ELSE {[data |-> m, rest |-> <<>>] : m \in messages}
         \cup UNION {{[data |-> SubSeq(m, 1, k),
                       rest |-> SubSeq(m, k + 1, Len(m))] : k \in SplitAt(m)}
                     : m \in messages \cap Traffic[traffic].split}

\* The outcomes of the sink's calls during the next call of the session.
Outcomes ==
    IF Traffic[traffic].sink_fails /\ failed_calls < MaxFailedCalls
    THEN SinkOutcomes ELSE {{}}

\* The end of a call of the session that leaves r.
Return(r) == WithinBounds(r) /\ Store(r) /\ Account(r)

OnNewConnection ==
    /\ Alive
    /\ connects < MaxConnects
    /\ connects' = connects + 1
    /\ \E fail \in Outcomes :
          \E r \in {on_new_conection(Session, fail)} : Return(r)
    /\ UNCHANGED <<downstream_rest, upstream_rest, traffic>>

OnDownstreamData ==
    /\ Alive
    /\ \E c \in Chunks(downstream_rest, Traffic[traffic].down) :
          /\ \E fail \in Outcomes :
                \E r \in {on_downstream_data(Session, c.data, fail)} : Return(r)
          /\ downstream_rest' = c.rest
    /\ UNCHANGED <<upstream_rest, traffic, connects>>

OnUpstreamData ==
    /\ Alive
    /\ \E c \in Chunks(upstream_rest, Traffic[traffic].up) :
          /\ \E fail \in Outcomes :
                \E r \in {on_upstream_data(Session, c.data, fail)} : Return(r)
          /\ upstream_rest' = c.rest
    /\ UNCHANGED <<downstream_rest, traffic, connects>>

Next == OnNewConnection \/ OnDownstreamData \/ OnUpstreamData

Spec == Init /\ [][Next]_vars

-----------------------------------------------------------------------------
(* The parsers on their own: next_line, ReplyLine::try_from and            *)
(* Command::try_from are functions of the bytes they are given.  A         *)
(* behaviour of ParserSpec starts with the bytes in last_data and applies  *)
(* one of them to these bytes: last_call names it, result is what it       *)
(* returns.                                                                *)

MaxBuffer == 5       \* bytes of a buffer given to next_line
MaxReplyLine == 4    \* bytes of a line given to ReplyLine::try_from

\* The byte strings of at most n bytes over an alphabet.
BytesUpTo(alphabet, n) == UNION {[1..k -> alphabet] : k \in 0..n}

\* Buffers of CR, LF and 'a'.
Buffers == BytesUpTo({13, 10, 97}, MaxBuffer)

\* Lines of the bytes at and around the ends of '2'..'5', '0'..'5' and
\* '0'..'9', and of the separators SP and '-':  '/' '0' '1' '2' '5' '6' '9'
\* ':' SP '-'.
ReplyLines == BytesUpTo({47, 48, 49, 50, 53, 54, 57, 58, 32, 45}, MaxReplyLine)

\* Verbs: the twelve of Command, and others: "HI", "MAILX", the empty verb,
\* a verb of the bytes next to 'a'..'z' and 'A'..'Z' ("`{@["), a verb that is
\* not ASCII (U+00E9 then "a") and one that is not UTF-8.
Verbs ==
    {Helo_VERB, Ehlo_VERB, Mail_VERB, Rcpt_VERB, Data_VERB, Rset_VERB,
     Vrfy_VERB, Expn_VERB, Help_VERB, Noop_VERB, Quit_VERB, StartTls_VERB,
     <<72, 73>>, <<77, 65, 73, 76, 88>>, <<>>, <<96, 123, 64, 91>>,
     <<195, 169, 97>>, <<255>>}

\* A verb as a client may write it: in upper case, in lower case, or with
\* only its first letter in lower case.
Spellings(verb) ==
    {verb,
     [i \in 1..Len(verb) |->
         IF verb[i] >= 65 /\ verb[i] <= 90 THEN verb[i] + 32 ELSE verb[i]],
     [i \in 1..Len(verb) |->
         IF i = 1 /\ verb[i] >= 65 /\ verb[i] <= 90
         THEN verb[i] + 32 ELSE verb[i]]}

\* What may follow the verb: nothing, a space, a space and "a", a space and
\* "a b", a space and a byte that is not UTF-8, two spaces and "a".
Arguments ==
    {<<>>, <<32>>, <<32, 97>>, <<32, 97, 32, 98>>, <<32, 255>>, <<32, 32, 97>>}

CommandLines ==
    UNION {{w \o a : w \in Spellings(verb), a \in Arguments} : verb \in Verbs}

ParserInit ==
    /\ downstream_buffer = <<>>
    /\ upstream_buffer = <<>>
    /\ mode = "Connect"
    /\ next_reply = None
    /\ next_body = <<>>
    /\ pending_replies = <<>>
    /\ active_transaction = None
    /\ notified = <<>>
    /\ result = [res |-> "Ok", at |-> 0]
    /\ last_call = "new"
    /\ last_data \in Buffers \cup ReplyLines \cup CommandLines
    /\ fault = "none"
    /\ lines_taken = 0
    /\ n_enqueued = 0
    /\ n_completed = 0
    /\ fell_back = FALSE
    /\ opened_by = 0
    /\ rcpt_log = <<>>
    /\ phase_body = <<>>
    /\ sink_calls = [e \in Notifications |-> 0]
    /\ n_matched = 0
    /\ downstream_rest = <<>>
    /\ upstream_rest = <<>>
    /\ failed_calls = 0
    /\ traffic = "mail"
    /\ connects = 0

\* The variables a call of a parser leaves alone.
ParserFrame ==
    UNCHANGED <<downstream_buffer, upstream_buffer, mode, next_reply,
                next_body, pending_replies, active_transaction, notified,
                last_data, fault, lines_taken, n_enqueued, n_completed,
                fell_back, opened_by, rcpt_log, phase_body, sink_calls,
                n_matched, downstream_rest,
                upstream_rest, failed_calls, traffic, connects>>

NextLineCall ==
    /\ last_call = "new"
    /\ last_data \in Buffers
    /\ last_call' = "next_line"
    /\ result' = next_line(last_data)
    /\ ParserFrame

ReplyLineCall ==
    /\ last_call = "new"
    /\ last_data \in ReplyLines
    /\ last_call' = "ReplyLine::try_from"
    /\ result' = ReplyLineTryFrom(last_data)
    /\ ParserFrame

CommandCall ==
    /\ last_call = "new"
    /\ last_data \in CommandLines
    /\ last_call' = "Command::try_from"
    /\ result' = CommandTryFrom(last_data)
    /\ ParserFrame

ParserNext == NextLineCall \/ ReplyLineCall \/ CommandCall

ParserSpec == ParserInit /\ [][ParserNext]_vars

-----------------------------------------------------------------------------
(* Properties *)

IsReplyEvent(e) ==
    e.ev \in {"connect_reply", "command_reply", "transaction_commit_reply"}

\* The pending kind a reply notification stands for.
KindOf(e) ==
    CASE e.ev = "connect_reply" -> "Connect"
      [] e.ev = "command_reply" -> "Command"
      [] OTHER -> "Commit"

\* The sink calls of the last call that are notifications `name`.
Events(name) == {i \in 1..Len(notified) : notified[i].ev = name}

\* The sink returned Ok at every call of the last call.
SinkOk == \A i \in 1..Len(notified) : notified[i].ok

\* C1: once Mode is PassThrough, no call (on_new_conection,
\* on_downstream_data, on_upstream_data, whatever the bytes and whatever the
\* sink returns) sets it to Connect, Command or Data again.
PassThroughIsAbsorbing ==
    [][mode = "PassThrough" => mode' = "PassThrough"]_vars

\* A connection is announced to a session that is in PassThrough and has
\* been given data before.
PassThroughIsAbsorbingWitness ==
    /\ mode = "PassThrough"
    /\ last_call = "on_new_conection"
    /\ Len(pending_replies) > 0
    /\ n_completed > 0

\* C2: in PassThrough on_downstream_data and on_upstream_data return success
\* and change nothing: no byte is buffered, the pending queue, the
\* transaction, the in-progress reply and the body accumulator stay as they
\* are, and the sink is not called.
PassThroughIsNoOp ==
    [][(mode = "PassThrough"
        /\ last_call' \in {"on_downstream_data", "on_upstream_data"})
       => (/\ result'.res = "Ok"
           /\ notified' = <<>>
           /\ UNCHANGED <<downstream_buffer, upstream_buffer, pending_replies,
                          active_transaction, next_reply, next_body, mode>>)]_vars

\* A malformed reply line reaches a session in PassThrough that still has an
\* entry pending: nothing is dequeued and no parse error is notified.
PassThroughIsNoOpWitness ==
    /\ mode = "PassThrough"
    /\ last_call = "on_upstream_data"
    /\ last_data = U_BadCode
    /\ notified = <<>>
    /\ pending_replies # <<>>

\* C3: as long as fallback has not been entered, the k-th Reply completed
\* on the upstream path is matched to the k-th entry pushed: the sink is
\* called with that entry's kind and verb, however the replies are chunked
\* and interleaved with the downstream calls.
FifoCorrelation ==
    ~fell_back =>
        \A i \in 1..Len(notified) :
            IsReplyEvent(notified[i]) =>
                /\ notified[i].seq = notified[i].nth
                /\ notified[i].pushed.kind = KindOf(notified[i])
                /\ notified[i].pushed.verb = notified[i].verb

\* The third Reply is matched to the third entry, a command, by a call that
\* is given the rest of a reply whose first bytes came with an earlier call.
FifoCorrelationWitness ==
    /\ ~fell_back
    /\ last_call = "on_upstream_data"
    /\ find(last_data, CR_LF) = Len(last_data) - 2
    /\ Len(last_data) < 7
    /\ \E i \in 1..Len(notified) :
          /\ notified[i].ev = "command_reply"
          /\ notified[i].nth = 3
          /\ notified[i].seq = 3

DataCalls == {"on_downstream_data", "on_upstream_data"}

\* C4: whenever draining a buffer meets a parse error (a verb that is not
\* UTF-8, a malformed reply line or code, a completed Reply with nothing
\* pending), the sink is sent a parse-error notification and Mode is
\* PassThrough when the call returns, also when that notification fails.
FallbackSetsPassThrough ==
    fault \in {"command", "reply", "desync"} =>
        /\ Events("parse_error") # {}
        /\ mode = "PassThrough"

\* A malformed reply code is met, the parse-error notification fails, and
\* the call returns the sink's error with Mode still Connect.
FallbackAbortedBySink ==
    /\ fault = "reply"
    /\ last_data = U_BadCode
    /\ notified = <<[Event("parse_error", <<>>, NoCode) EXCEPT !.ok = FALSE]>>
    /\ result = [res |-> "Err", at |-> 1]
    /\ mode = "Connect"

\* C5: a valid Reply that completes while the pending queue is empty is a
\* desynchronization: exactly one parse-error notification is made, it is
\* the last sink call, Mode is PassThrough, and no connect, command or
\* commit reply notification is made for that Reply.
DesyncFallsBack ==
    fault = "desync" =>
        /\ Events("parse_error") = {Len(notified)}
        /\ mode = "PassThrough"
        /\ \A i \in 1..Len(notified) :
              IsReplyEvent(notified[i]) => notified[i].nth < n_completed

\* A greeting arrives before any connection was announced, the parse-error
\* notification fails, and Mode is still Connect when the call returns.
DesyncAbortedBySink ==
    /\ fault = "desync"
    /\ n_enqueued = 0
    /\ n_completed = 1
    /\ Events("parse_error") = {1}
    /\ ~notified[1].ok
    /\ result.res = "Err"
    /\ mode = "Connect"

\* C6: when a sink notification other than the parse-error one fails during
\* on_downstream_data or on_upstream_data, the call returns that failure,
\* no parse-error notification is made and Mode is not set to PassThrough.
SinkFailureIsReturned ==
    \A i \in 1..Len(notified) :
        (/\ last_call \in DataCalls
         /\ ~notified[i].ok
         /\ notified[i].ev # "parse_error")
        => /\ result = [res |-> "Err", at |-> i]
           /\ Events("parse_error") = {}
           /\ mode # "PassThrough"

\* The connect-reply notification fails on the upstream path; a parse error
\* is then notified, the call returns Ok and Mode is PassThrough.
SinkFailureFallsBack ==
    /\ last_call = "on_upstream_data"
    /\ Len(notified) = 2
    /\ notified[1].ev = "connect_reply"
    /\ ~notified[1].ok
    /\ notified[2].ev = "parse_error"
    /\ notified[2].ok
    /\ result.res = "Ok"
    /\ mode = "PassThrough"

\* C7: provided no sink call fails, on_downstream_data and on_upstream_data
\* return Ok for every byte sequence in every Mode; they never return an
\* error and never abort.
ProtocolErrorsAreRecovered ==
    (last_call \in DataCalls /\ SinkOk) => result.res = "Ok"

\* The reply line "250" without separator and text makes on_upstream_data
\* abort although no sink call failed.
BareCodeAborts ==
    /\ last_call = "on_upstream_data"
    /\ last_data = U_Bare250
    /\ SinkOk
    /\ result.res = "Panic"

\* A CRLF-terminated line with no other CRLF in it, whose verb is UTF-8.
WellFormedCommandLine(line) ==
    /\ Len(line) >= 2
    /\ find(line, CR_LF) = Len(line) - 2
    /\ CommandTryFrom(SubSeq(line, 1, Len(line) - 2)).ok

\* The session's own fields in a record of the session.
Fields(r) ==
    <<r.mode, r.pending_replies, r.downstream_buffer, r.upstream_buffer,
      r.active_transaction, r.next_reply, r.next_body>>

\* C8: as long as the sink does not fail, feeding a well-formed command
\* line of the traffic to on_downstream_data in two consecutive calls, split
\* at any point (between CR and LF too), leaves the session's fields as one
\* call with the whole line leaves them, both ways return Ok, and the sink
\* calls of the two calls together are the sink calls of the one call.
ChunkBoundaryIndependence ==
    failed_calls = 0 =>
        \A line \in {l \in Traffic[traffic].down : WellFormedCommandLine(l)} :
            \A whole \in {on_downstream_data(Session, line, {})} :
                \A k \in 1..(Len(line) - 1) :
                    \A first \in {on_downstream_data(
                                      Session, SubSeq(line, 1, k), {})} :
                        \A second \in {on_downstream_data(
                                           first,
                                           SubSeq(line, k + 1, Len(line)),
                                           {})} :
                            /\ Fields(second) = Fields(whole)
                            /\ first.notified \o second.notified
                                   = whole.notified
                            /\ first.result.res = "Ok"
                            /\ second.result = whole.result

\* The line feed that ends a command reaches the session in a call of its
\* own, after the rest of the line, and the command is then notified and
\* its entry pushed.
ChunkBoundaryIndependenceWitness ==
    /\ last_call = "on_downstream_data"
    /\ last_data = <<10>>
    /\ downstream_buffer = <<>>
    /\ Len(notified) = 1
    /\ notified[1].ev = "command"
    /\ notified[1].verb = Noop_VERB
    /\ pending_replies # <<>>
    /\ pending_replies[Len(pending_replies)].pushed
           = [kind |-> "Command", verb |-> Noop_VERB]

\* What a call of on_downstream_data that is given one complete well-formed
\* command line does, in the Modes given: one sink call, an on_command
\* notification, and one more pending entry.  The bytes buffered before the
\* call, if any, are the beginning of that line.
OneLineOneCommand(modes) ==
    (/\ mode \in modes
     /\ last_call' = "on_downstream_data"
     /\ WellFormedCommandLine(last_data')
     /\ WellFormedCommandLine(downstream_buffer \o last_data')
     /\ \A i \in 1..Len(notified') : notified'[i].ok)
    => /\ Len(notified') = 1
       /\ notified'[1].ev = "command"
       /\ Len(pending_replies') = Len(pending_replies) + 1
       /\ SubSeq(pending_replies', 1, Len(pending_replies)) = pending_replies
       /\ pending_replies'[Len(pending_replies')].kind = "Command"

PositiveReplyLine(data) ==
    /\ Len(data) >= 2
    /\ find(data, CR_LF) = Len(data) - 2
    /\ LET l == ReplyLineTryFrom(SubSeq(data, 1, Len(data) - 2))
       IN  l.res = "Ok" /\ l.line.last /\ is_positive(l.line.code.x)

\* C10: when the Connect entry of on_new_conection is the oldest pending
\* entry, Mode is Connect and a positive greeting arrives on the upstream
\* path, the greeting is matched to that entry: the sink receives exactly
\* one notification, a connect-reply one with the greeting's code, and Mode
\* is Command.
GreetingSetsCommand ==
    [][(/\ mode = "Connect"
        /\ pending_replies # <<>>
        /\ Head(pending_replies).kind = "Connect"
        /\ upstream_buffer = <<>>
        /\ next_reply = None
        /\ last_call' = "on_upstream_data"
        /\ PositiveReplyLine(last_data')
        /\ \A i \in 1..Len(notified') : notified'[i].ok)
       => /\ mode' = "Command"
          /\ Len(notified') = 1
          /\ notified'[1].ev = "connect_reply"
          /\ notified'[1].code
                 = ReplyCodeTryFrom(SubSeq(last_data', 1, 3)).code
          /\ pending_replies' = Tail(pending_replies)]_vars

\* The greeting 220 has been matched to the Connect entry: one
\* connect-reply notification with code 220, and Mode is Command.
GreetingSetsCommandWitness ==
    /\ last_call = "on_upstream_data"
    /\ last_data = U_220
    /\ mode = "Command"
    /\ n_completed = 1
    /\ Len(notified) = 1
    /\ notified[1].ev = "connect_reply"
    /\ notified[1].ok
    /\ notified[1].pushed.kind = "Connect"
    /\ notified[1].code = [x |-> "PositiveCompletionReply", y |-> 2, z |-> 0]

\* The transaction in the live slot, or the one get_or_insert_with would
\* put there.
TxOf(slot) == IF slot = None THEN DefaultTransaction ELSE slot[1]

\* The positions in a log of sink calls of the notifications `name`.
EventsIn(log, name) == {i \in 1..Len(log) : log[i].ev = name}

\* A step of on_upstream_data that handles exactly one Reply, with the sink
\* returning Ok: the Reply is matched to Head(pending_replies) and its code
\* is notified'[1].code.
OneReplyMatched ==
    /\ last_call' = "on_upstream_data"
    /\ mode # "PassThrough"
    /\ pending_replies # <<>>
    /\ Len(notified') = 1
    /\ IsReplyEvent(notified'[1])
    /\ notified'[1].ok

\* Such a step, the entry being a command with the given tag and the
\* reply's class being as given.
CommandReplied(tags, positive) ==
    /\ OneReplyMatched
    /\ Head(pending_replies).kind = "Command"
    /\ Head(pending_replies).cmd.tag \in tags
    /\ is_positive(notified'[1].code.x) = positive

\* C11: a negative reply (4xy or 5xy) matched to the Connect entry while
\* Mode is Connect is reported to the sink as a connect reply and leaves
\* Mode Connect.
NegativeGreetingKeepsConnect ==
    [][(/\ OneReplyMatched
        /\ mode = "Connect"
        /\ Head(pending_replies).kind = "Connect"
        /\ ~is_positive(notified'[1].code.x))
       => /\ notified'[1].ev = "connect_reply"
          /\ mode' = "Connect"]_vars

\* The greeting 550 has been matched to the Connect entry, the only entry
\* ever pushed, and Mode is Command.
NegativeGreetingSetsCommand ==
    /\ last_call = "on_upstream_data"
    /\ last_data = U_550
    /\ n_enqueued = 1
    /\ n_completed = 1
    /\ Len(notified) = 1
    /\ notified[1].ev = "connect_reply"
    /\ notified[1].ok
    /\ notified[1].code.x = "PermanentNegativeCompletionReply"
    /\ mode = "Command"

\* C12: a positive reply matched to a pending DATA command sets Mode to
\* Data and the transaction's body to empty, creating the transaction if
\* there is none and keeping its sender and recipients; and Mode becomes
\* Data only in a call of on_upstream_data that notifies a positive reply
\* to DATA.
DataReplyOpensData ==
    [][/\ CommandReplied({"Data"}, TRUE)
          => /\ mode' = "Data"
             /\ active_transaction'
                    = Some([TxOf(active_transaction) EXCEPT !.body = <<>>])
       /\ (mode # "Data" /\ mode' = "Data")
          => /\ last_call' = "on_upstream_data"
             /\ \E i \in 1..Len(notified') :
                   /\ notified'[i].ev = "command_reply"
                   /\ notified'[i].ok
                   /\ notified'[i].pushed.verb = Data_VERB
                   /\ is_positive(notified'[i].code.x)]_vars

\* The reply 250 to DATA has set Mode to Data; the transaction keeps the
\* sender and the recipient recorded before, with an empty body.
DataReplyOpensDataWitness ==
    /\ mode = "Data"
    /\ last_call = "on_upstream_data"
    /\ last_data = U_250
    /\ Len(notified) = 1
    /\ notified[1].ev = "command_reply"
    /\ notified[1].verb = Data_VERB
    /\ active_transaction
           = Some([from |-> <<97>>, to |-> << <<98>> >>, body |-> <<>>])

\* C13: when on_downstream_data consumes the body terminator in Mode Data,
\* the accumulated body is installed in the transaction, the transaction
\* leaves the live slot for a Commit entry pushed behind the entries
\* pending, exactly one commit notification is made, and Mode is Command.
CommitAtTerminator ==
    [][(/\ mode = "Data"
        /\ last_call' = "on_downstream_data"
        /\ EventsIn(notified', "transaction_commit") # {})
       => /\ Cardinality(EventsIn(notified', "transaction_commit")) = 1
          /\ active_transaction' = None
          /\ mode' = "Command"
          /\ Len(pending_replies') > Len(pending_replies)
          /\ SubSeq(pending_replies', 1, Len(pending_replies))
                 = pending_replies
          /\ LET commit == pending_replies'[Len(pending_replies) + 1]
                 bytes == next_body \o downstream_buffer \o last_data'
             IN  /\ commit.kind = "Commit"
                 /\ commit.tx.from = TxOf(active_transaction).from
                 /\ commit.tx.to = TxOf(active_transaction).to
                 /\ \E n \in 5..Len(bytes) :
                       /\ commit.tx.body = SubSeq(bytes, 1, n)
                       /\ SubSeq(bytes, n - 4, n) = CR_LF \o <<46>> \o CR_LF
                       /\ downstream_buffer' \in
                              {<<>>, SubSeq(bytes, n + 1, Len(bytes))}]_vars

\* The body terminator has been consumed and the Commit entry pushed, the
\* commit notification has failed, and Mode is still Data.
CommitAbortedBySink ==
    /\ last_call = "on_downstream_data"
    /\ last_data = D_Dot
    /\ notified = <<[Event("transaction_commit", <<>>, NoCode)
                        EXCEPT !.ok = FALSE]>>
    /\ result = [res |-> "Err", at |-> 1]
    /\ pending_replies # <<>>
    /\ pending_replies[Len(pending_replies)].kind = "Commit"
    /\ active_transaction = None
    /\ mode = "Data"

\* A step of on_downstream_data that consumes a body terminator.
Commits ==
    /\ mode = "Data"
    /\ last_call' = "on_downstream_data"
    /\ EventsIn(notified', "transaction_commit") # {}

\* A step of on_upstream_data that completes a Reply, the first one since
\* the Commit entry at position i of the queue was pushed.
FirstReplyAfterCommit(i) ==
    /\ last_call' = "on_upstream_data"
    /\ n_completed' > n_completed
    /\ pending_replies[i].kind = "Commit"
    /\ pending_replies[i].after = n_completed

\* The DATA entry whose positive reply set Mode to Data is no longer in the
\* queue when the body is committed.
DataDequeuedBeforeCommit ==
    Commits => /\ opened_by > 0
               /\ \A i \in 1..Len(pending_replies) :
                     pending_replies[i].seq > opened_by

\* C14 (as stated): the DATA entry whose positive reply opened Data mode is
\* dequeued before the Commit entry is pushed, and the first Reply completed
\* on the upstream path after the commit is reported as a
\* transaction-commit reply.
CommitRepliedFirst ==
    [][/\ DataDequeuedBeforeCommit
       /\ \A i \in 1..Len(pending_replies) :
             FirstReplyAfterCommit(i)
             => notified'[1].ev = "transaction_commit_reply"]_vars

\* C14 (amended): the DATA entry whose positive reply opened Data mode is
\* dequeued before the Commit entry is pushed, and the first Reply completed
\* after the commit is reported as a transaction-commit reply, matched to
\* that Commit entry, when no other entry is pending ahead of it.
CommitRepliedInTurn ==
    [][/\ DataDequeuedBeforeCommit
       /\ (pending_replies # <<>> /\ FirstReplyAfterCommit(1))
          => /\ notified'[1].ev = "transaction_commit_reply"
             /\ notified'[1].seq = Head(pending_replies).seq
             /\ notified'[1].seq > opened_by]_vars

\* The body of a transaction opened by the reply to DATA has been committed
\* and the next Reply has been reported as the reply to that commit.
CommitRepliedInTurnWitness ==
    /\ last_call = "on_upstream_data"
    /\ Len(notified) = 1
    /\ notified[1].ev = "transaction_commit_reply"
    /\ notified[1].ok
    /\ notified[1].pushed.kind = "Commit"
    /\ opened_by > 0
    /\ notified[1].seq = opened_by + 1
    /\ notified[1].nth = notified[1].seq

\* A step of on_upstream_data in which the first Reply handled is matched
\* to a command with one of the tags, the sink returning Ok for it.
FirstReplyToCommand(tags) ==
    /\ last_call' = "on_upstream_data"
    /\ mode # "PassThrough"
    /\ pending_replies # <<>>
    /\ Head(pending_replies).kind = "Command"
    /\ Head(pending_replies).cmd.tag \in tags
    /\ notified' # <<>>
    /\ notified'[1].ev = "command_reply"
    /\ notified'[1].ok

\* C15: a positive reply matched to a pending STARTTLS command sets Mode to
\* PassThrough, whether Mode is Connect, Command or Data; the call returns
\* Ok, no parse error is notified and nothing more is handled.
StartTlsReplySetsPassThrough ==
    [][(FirstReplyToCommand({"StartTls"})
        /\ is_positive(notified'[1].code.x))
       => /\ mode' = "PassThrough"
          /\ notified'[1].verb = StartTls_VERB
          /\ Len(notified') = 1
          /\ result'.res = "Ok"
          /\ fault' = "none"
          /\ fell_back' = fell_back]_vars

\* STARTTLS was pending behind DATA; the reply to DATA set Mode to Data and
\* the positive reply to STARTTLS has then set it to PassThrough.
StartTlsReplySetsPassThroughWitness ==
    /\ mode = "PassThrough"
    /\ last_call = "on_upstream_data"
    /\ ~fell_back
    /\ connects = 0
    /\ n_completed = 2
    /\ opened_by = 1
    /\ Len(notified) = 1
    /\ notified[1].ev = "command_reply"
    /\ notified[1].verb = StartTls_VERB
    /\ is_positive(notified[1].code.x)

\* The command a downstream line holds.
CommandOf(data) == CommandTryFrom(SubSeq(data, 1, Len(data) - 2)).cmd

\* C16: a positive reply matched to a pending Unknown command sets Mode to
\* PassThrough; the Unknown command itself, when its line is fed in Connect
\* or Command, is notified with its upper-cased verb and pushed, and Mode
\* stays as it is.
UnknownReplySetsPassThrough ==
    [][/\ (FirstReplyToCommand({"Unknown"})
           /\ is_positive(notified'[1].code.x))
          => /\ mode' = "PassThrough"
             /\ Len(notified') = 1
             /\ result'.res = "Ok"
             /\ fault' = "none"
       /\ (/\ mode \in {"Connect", "Command"}
           /\ last_call' = "on_downstream_data"
           /\ WellFormedCommandLine(last_data')
           /\ WellFormedCommandLine(downstream_buffer \o last_data')
           /\ CommandOf(downstream_buffer \o last_data').tag = "Unknown"
           /\ \A i \in 1..Len(notified') : notified'[i].ok)
          => /\ mode' = mode
             /\ Len(notified') = 1
             /\ notified'[1].ev = "command"
             /\ notified'[1].verb
                    = CommandOf(downstream_buffer \o last_data').verb
             /\ Len(pending_replies') = Len(pending_replies) + 1
             /\ pending_replies'[Len(pending_replies')].kind = "Command"
             /\ pending_replies'[Len(pending_replies')].cmd
                    = CommandOf(downstream_buffer \o last_data')]_vars

\* "hi" was fed as a command and pushed as Unknown with verb "HI"; the
\* reply 220 matched to it has set Mode to PassThrough.
UnknownReplySetsPassThroughWitness ==
    /\ mode = "PassThrough"
    /\ last_call = "on_upstream_data"
    /\ last_data = U_220
    /\ ~fell_back
    /\ Len(notified) = 1
    /\ notified[1].ev = "command_reply"
    /\ notified[1].verb = <<72, 73>>
    /\ notified[1].pushed = [kind |-> "Command", verb |-> <<72, 73>>]

\* The reply line a chunk of upstream bytes holds, when the chunk is one
\* CRLF-terminated line.
ReplyLineOf(data) == ReplyLineTryFrom(SubSeq(data, 1, Len(data) - 2))

\* A chunk that is one well-formed reply line, last or not as given.
OneReplyLine(data, last) ==
    /\ Len(data) >= 2
    /\ find(data, CR_LF) = Len(data) - 2
    /\ ReplyLineOf(data).res = "Ok"
    /\ ReplyLineOf(data).line.last = last

\* The lines of the Reply in progress.
LinesOf(slot) == IF slot = None THEN <<>> ELSE slot[1]

\* C17: a multi-line reply is assembled into one Reply.  A continuation
\* line is added to the Reply in progress, in whichever call it arrives,
\* and nothing is dequeued or notified; the line with the last flag
\* completes the Reply, which dequeues exactly one entry, is notified once
\* with the code of its first line, and empties the in-progress slot.
MultiLineReplyIsOneReply ==
    [][/\ (/\ last_call' = "on_upstream_data"
           /\ mode # "PassThrough"
           /\ upstream_buffer = <<>>
           /\ OneReplyLine(last_data', FALSE))
          => /\ next_reply' = Some(Append(LinesOf(next_reply),
                                          ReplyLineOf(last_data').line))
             /\ pending_replies' = pending_replies
             /\ notified' = <<>>
             /\ n_completed' = n_completed
             /\ mode' = mode
             /\ result'.res = "Ok"
       /\ (/\ last_call' = "on_upstream_data"
           /\ mode # "PassThrough"
           /\ upstream_buffer = <<>>
           /\ next_reply # None
           /\ pending_replies # <<>>
           /\ OneReplyLine(last_data', TRUE)
           /\ \A i \in 1..Len(notified') : notified'[i].ok)
          => /\ n_completed' = n_completed + 1
             /\ pending_replies' = Tail(pending_replies)
             /\ Len(notified') = 1
             /\ IsReplyEvent(notified'[1])
             /\ notified'[1].seq = Head(pending_replies).seq
             /\ notified'[1].code = next_reply[1][1].code
             /\ next_reply' = None]_vars

\* The line "550 n" has completed a Reply whose first line was "250-a": one
\* entry was dequeued and notified with the code 250.
MultiLineReplyIsOneReplyWitness ==
    /\ last_call = "on_upstream_data"
    /\ last_data = U_550
    /\ next_reply = None
    /\ n_completed = 1
    /\ Len(notified) = 1
    /\ IsReplyEvent(notified[1])
    /\ notified[1].nth = 1
    /\ notified[1].seq = 1
    /\ notified[1].code = [x |-> "PositiveCompletionReply", y |-> 5, z |-> 0]

\* The bytes of a line after its first space.
AfterFirstSpace(line) ==
    LET i == CHOOSE i \in 1..Len(line) :
                 line[i] = SP[1] /\ \A j \in 1..(i - 1) : line[j] # SP[1]
    IN  SubSeq(line, i + 1, Len(line))

\* C18: a positive reply matched to a pending MAIL command sets the
\* transaction's sender to the command's argument bytes, creating the
\* transaction if there is none and keeping its recipients and body; the
\* argument bytes of a MAIL command are the bytes of its line after the
\* first space, unchanged.
MailReplySetsSender ==
    [][/\ CommandReplied({"Mail"}, TRUE)
          => /\ active_transaction'
                    = Some([TxOf(active_transaction) EXCEPT
                               !.from = Head(pending_replies).cmd.args])
             /\ mode' = mode
       /\ (/\ last_call' = "on_downstream_data"
           /\ mode \in {"Connect", "Command"}
           /\ downstream_buffer = <<>>
           /\ WellFormedCommandLine(last_data')
           /\ Len(pending_replies') = Len(pending_replies) + 1
           /\ pending_replies'[Len(pending_replies')].kind = "Command"
           /\ pending_replies'[Len(pending_replies')].cmd.tag = "Mail")
          => pending_replies'[Len(pending_replies')].cmd.args
                 = AfterFirstSpace(SubSeq(last_data', 1,
                                          Len(last_data') - 2))]_vars

\* The reply 250 to "mail F:<a> b" has set the sender to "F:<a> b" in a
\* transaction that already had the recipient "b".
MailReplySetsSenderWitness ==
    /\ last_call = "on_upstream_data"
    /\ Len(notified) = 1
    /\ notified[1].ev = "command_reply"
    /\ notified[1].verb = Mail_VERB
    /\ is_positive(notified[1].code.x)
    /\ active_transaction
           = Some([from |-> <<70, 58, 60, 97, 62, 32, 98>>,
                   to |-> << <<98>> >>, body |-> <<>>])

\* C19: a positive reply matched to a pending RCPT command appends the
\* command's argument bytes to the end of the transaction's recipient
\* list, creating the transaction if there is none; so the recipient list
\* is always the sequence of the positively replied RCPT arguments since
\* the transaction was last cleared or committed, in reply order.
RcptReplyAppendsRecipient ==
    [][/\ CommandReplied({"Rcpt"}, TRUE)
          => /\ active_transaction'
                    = Some([TxOf(active_transaction) EXCEPT
                               !.to = Append(@, Head(pending_replies).cmd.args)])
             /\ mode' = mode
       /\ TxOf(active_transaction').to = rcpt_log']_vars

\* Three RCPT commands have been replied, one of them negatively; the
\* recipients are "c" and "b", in the order of their positive replies.
RcptReplyAppendsRecipientWitness ==
    /\ last_call = "on_upstream_data"
    /\ n_completed = 3
    /\ Len(notified) = 1
    /\ notified[1].ev = "command_reply"
    /\ notified[1].verb = Rcpt_VERB
    /\ is_positive(notified[1].code.x)
    /\ rcpt_log = << <<99>>, <<98>> >>
    /\ active_transaction
           = Some([from |-> <<>>, to |-> << <<99>>, <<98>> >>, body |-> <<>>])

\* C20: a positive reply matched to a pending HELO, EHLO or RSET command
\* leaves the session with no active transaction (sender, recipients and
\* body are gone) and does not change Mode.
ResetReplyClearsTransaction ==
    [][CommandReplied({"Helo", "Ehlo", "Rset"}, TRUE)
          => /\ active_transaction' = None
             /\ mode' = mode]_vars

\* The replies 220 to DATA and RSET, sent one after the other, have been
\* handled: the reply to DATA has made a transaction and set Mode to Data,
\* the reply to RSET has discarded the transaction, and Mode is still Data.
ResetReplyClearsTransactionWitness ==
    /\ last_call = "on_upstream_data"
    /\ mode = "Data"
    /\ n_completed = 2
    /\ connects = 0
    /\ Len(notified) = 1
    /\ notified[1].ev = "command_reply"
    /\ notified[1].verb = Rset_VERB
    /\ is_positive(notified[1].code.x)
    /\ active_transaction = None
    /\ pending_replies = <<>>

\* A step of on_upstream_data that handles exactly one Reply, matched to a
\* Commit entry, with the sink returning Ok.
CommitReplied ==
    /\ OneReplyMatched
    /\ Head(pending_replies).kind = "Commit"

\* The variants of Command, and those whose replies have no effect.
CommandTags ==
    {"Helo", "Ehlo", "Mail", "Rcpt", "Data", "Rset", "Vrfy", "Expn", "Help",
     "Noop", "Quit", "StartTls", "Unknown"}
NoEffectTags == {"Vrfy", "Expn", "Help", "Noop", "Quit"}

\* C21: a negative reply to a pending Command of any verb, any reply to
\* VRFY, EXPN, HELP, NOOP or QUIT, and any reply matched to a Commit entry
\* dequeue the matched entry and are notified, and leave Mode and the
\* active transaction as they were.
RepliesWithoutEffect ==
    [][(\/ CommandReplied(CommandTags, FALSE)
        \/ CommandReplied(NoEffectTags, TRUE)
        \/ CommitReplied)
          => /\ mode' = mode
             /\ active_transaction' = active_transaction
             /\ pending_replies' = Tail(pending_replies)
             /\ result'.res = "Ok"]_vars

\* The reply 250 to QUIT has been handled after the reply 250 to MAIL: the
\* transaction still holds the sender "a" and Mode is still Command.
RepliesWithoutEffectWitness ==
    /\ last_call = "on_upstream_data"
    /\ mode = "Command"
    /\ Len(notified) = 1
    /\ notified[1].ev = "command_reply"
    /\ notified[1].verb = Quit_VERB
    /\ is_positive(notified[1].code.x)
    /\ active_transaction
           = Some([from |-> <<97>>, to |-> <<>>, body |-> <<>>])

\* C22: on_new_conection calls the sink once, with the connect
\* notification.  If the sink returns Ok, the call returns Ok and exactly one
\* Connect entry has been put at the tail of pending_replies; if the sink
\* fails, the call fails and pending_replies is as it was.  The call fails
\* in no other case, and Mode, the buffers and the transaction are
\* unchanged either way.
NewConnectionEnqueuesConnect ==
    [][last_call' = "on_new_conection"
          => /\ Len(notified') = 1
             /\ notified'[1].ev = "connect"
             /\ mode' = mode
             /\ downstream_buffer' = downstream_buffer
             /\ upstream_buffer' = upstream_buffer
             /\ active_transaction' = active_transaction
             /\ IF notified'[1].ok
                THEN /\ result'.res = "Ok"
                     /\ Len(pending_replies') = Len(pending_replies) + 1
                     /\ SubSeq(pending_replies', 1, Len(pending_replies))
                            = pending_replies
                     /\ pending_replies'[Len(pending_replies')].kind
                            = "Connect"
                ELSE /\ result'.res = "Err"
                     /\ pending_replies' = pending_replies]_vars

\* on_new_conection has been called while a command was pending: the
\* Connect entry is behind the command's entry.
NewConnectionEnqueuesConnectWitness ==
    /\ last_call = "on_new_conection"
    /\ result.res = "Ok"
    /\ Len(pending_replies) = 2
    /\ pending_replies[1].kind = "Command"
    /\ pending_replies[2].kind = "Connect"
    /\ Len(notified) = 1
    /\ notified[1].ev = "connect"

\* The byte string holds CR immediately followed by LF.
HasCrLf(b) == \E i \in 1..(Len(b) - 1) : b[i] = 13 /\ b[i + 1] = 10

\* C23: if the buffer holds CR LF, next_line returns the bytes before the
\* first CR LF and leaves the bytes after it, in order; otherwise it returns
\* nothing and leaves the buffer as it was.  A CR or an LF on its own ends
\* no line.
NextLineSplitsAtFirstCrLf ==
    last_call = "next_line"
        => IF HasCrLf(last_data)
           THEN /\ result.some
                /\ last_data = result.line \o <<13, 10>> \o result.buffer
                /\ ~HasCrLf(result.line \o <<13>>)
           ELSE /\ ~result.some
                /\ result.buffer = last_data

\* next_line has been applied to LF CR CR LF 'a': the line is LF CR, with
\* its bare LF and bare CR, and 'a' is left in the buffer.
NextLineSplitsAtFirstCrLfWitness ==
    /\ last_call = "next_line"
    /\ last_data = <<10, 13, 13, 10, 97>>
    /\ result = [some |-> TRUE, line |-> <<10, 13>>, buffer |-> <<97>>]

\* The first three bytes of the line are a reply code: '2'..'5', '0'..'5',
\* '0'..'9'.
ValidCode(b) ==
    /\ Len(b) >= 3
    /\ b[1] >= 50 /\ b[1] <= 53
    /\ b[2] >= 48 /\ b[2] <= 53
    /\ b[3] >= 48 /\ b[3] <= 57

\* C24: after a valid code, a line that ends there or goes on with a space
\* is a last line, a line that goes on with '-' is a continuation line, and
\* a line that goes on with any other byte is a parse error.
SeparatorDecidesLast ==
    (last_call = "ReplyLine::try_from" /\ ValidCode(last_data))
        => CASE Len(last_data) = 3 \/ last_data[4] = 32 ->
                    result.res = "Ok" /\ result.line.last
             [] last_data[4] = 45 ->
                    result.res = "Ok" /\ ~result.line.last
             [] OTHER -> result.res = "Err"

\* ReplyLine::try_from has been applied to "250": it has aborted, and no
\* line has been returned.
ThreeByteLineAborts ==
    /\ last_call = "ReplyLine::try_from"
    /\ last_data = <<50, 53, 48>>
    /\ result.res = "Panic"

\* C25: a reply line shorter than three bytes, or whose first three bytes
\* are not a code ('2'..'5', '0'..'5', '0'..'9'), is a parse error; a line
\* that starts with a code and ends there, or goes on with a space or '-',
\* is accepted.
CodeDecidesRejection ==
    last_call = "ReplyLine::try_from"
        => /\ ~ValidCode(last_data) => result.res = "Err"
           /\ (/\ ValidCode(last_data)
               /\ (Len(last_data) = 3 \/ last_data[4] \in {32, 45}))
                 => result.res = "Ok"

\* ReplyLine::try_from has been applied to "559", a code at the upper end
\* of each range: the line is neither accepted nor rejected.
ValidCodeNotAccepted ==
    /\ last_call = "ReplyLine::try_from"
    /\ last_data = <<53, 53, 57>>
    /\ result.res \notin {"Ok", "Err"}

\* The position of the first space of a line, 0 if it has none; the bytes
\* before it (the whole line if there is none) and the bytes after it.
FirstSpace(line) ==
    IF \E i \in 1..Len(line) : line[i] = 32
    THEN CHOOSE i \in 1..Len(line) :
             line[i] = 32 /\ \A j \in 1..(i - 1) : line[j] # 32
    ELSE 0
VerbPart(line) ==
    IF FirstSpace(line) = 0 THEN line
    ELSE SubSeq(line, 1, FirstSpace(line) - 1)
ArgsPart(line) ==
    IF FirstSpace(line) = 0 THEN <<>>
    ELSE SubSeq(line, FirstSpace(line) + 1, Len(line))

\* A byte string with its ASCII letters in upper case.
Folded(b) ==
    [i \in 1..Len(b) |->
        IF \E k \in 1..26 : b[i] = 96 + k THEN b[i] - 32 ELSE b[i]]

\* The verbs of Command with the variant each stands for, and the variants
\* that keep the argument bytes.
VerbTable ==
    {<<Helo_VERB, "Helo">>, <<Ehlo_VERB, "Ehlo">>, <<Mail_VERB, "Mail">>,
     <<Rcpt_VERB, "Rcpt">>, <<Data_VERB, "Data">>, <<Rset_VERB, "Rset">>,
     <<Vrfy_VERB, "Vrfy">>, <<Expn_VERB, "Expn">>, <<Help_VERB, "Help">>,
     <<Noop_VERB, "Noop">>, <<Quit_VERB, "Quit">>,
     <<StartTls_VERB, "StartTls">>}
WithArguments ==
    {"Helo", "Ehlo", "Mail", "Rcpt", "Vrfy", "Expn", "Help", "Noop"}

\* C26: Command::try_from succeeds on every line whose verb (the bytes
\* before the first space, or the whole line) is UTF-8.  The verb with its
\* ASCII letters in upper case selects the variant among the twelve verbs;
\* any other verb, the empty one too, gives Unknown with the upper-cased
\* verb; the bytes after the first space are kept as they are, whatever
\* they are.
CommandParsingNeverFails ==
    (last_call = "Command::try_from" /\ from_utf8_ok(VerbPart(last_data)))
        => /\ result.ok
           /\ \A e \in VerbTable :
                 Folded(VerbPart(last_data)) = e[1]
                     => /\ result.cmd.tag = e[2]
                        /\ result.cmd.tag \in WithArguments
                               => result.cmd.args = ArgsPart(last_data)
           /\ (\A e \in VerbTable : Folded(VerbPart(last_data)) # e[1])
                 => result.cmd = Cmd("Unknown", Folded(VerbPart(last_data)),
                                     ArgsPart(last_data))

\* Command::try_from has been applied to "mAIL" followed by a space and the
\* byte 0xFF: the command is MAIL and its argument is that byte.
CommandParsingNeverFailsWitness ==
    /\ last_call = "Command::try_from"
    /\ last_data = <<109, 65, 73, 76, 32, 255>>
    /\ result = [ok |-> TRUE, cmd |-> Cmd("Mail", <<>>, <<255>>)]

\* A call in which the first line taken from the buffer does not parse, so
\* that the call is a call of fallback: the line is a command line
\* (err = "command") or a reply line (err = "reply").
FellBackAtFirstLine(call, err) ==
    /\ last_call' = call
    /\ fault' = err
    /\ lines_taken' = 1

\* C27: fallback after a parse error loses nothing.  The bytes buffered for
\* the other direction, pending_replies, the active transaction and the
\* Reply and the body in progress are as they were; the failing direction's
\* buffer has lost the offending line and its CR LF, nothing else; Mode
\* alone changes, to PassThrough (it stays as it was if the sink fails).
FallbackLosesNothing ==
    [][/\ FellBackAtFirstLine("on_downstream_data", "command")
          => /\ upstream_buffer' = upstream_buffer
             /\ downstream_buffer'
                    = next_line(downstream_buffer \o last_data').buffer
             /\ ~CommandTryFrom(
                     next_line(downstream_buffer \o last_data').line).ok
       /\ FellBackAtFirstLine("on_upstream_data", "reply")
          => /\ downstream_buffer' = downstream_buffer
             /\ upstream_buffer'
                    = next_line(upstream_buffer \o last_data').buffer
             /\ ReplyLineTryFrom(
                    next_line(upstream_buffer \o last_data').line).res = "Err"
       /\ (\/ FellBackAtFirstLine("on_downstream_data", "command")
           \/ FellBackAtFirstLine("on_upstream_data", "reply"))
          => /\ pending_replies' = pending_replies
             /\ active_transaction' = active_transaction
             /\ next_reply' = next_reply
             /\ next_body' = next_body
             /\ Len(notified') = 1
             /\ notified'[1].ev = "parse_error"
             /\ mode' = IF notified'[1].ok THEN "PassThrough" ELSE mode]_vars

\* The reply line "650 x" has triggered fallback in Mode Data, while the
\* bytes "DA" were buffered downstream, a command was pending and a
\* transaction was active: they are all still there, and so is the line
\* "220 k" that came with the bad one.
FallbackLosesNothingWitness ==
    /\ last_call = "on_upstream_data"
    /\ last_data = U_BadThenGood
    /\ fault = "reply"
    /\ mode = "PassThrough"
    /\ opened_by = 1
    /\ downstream_buffer = <<68, 65>>
    /\ upstream_buffer = U_220
    /\ Len(pending_replies) = 1
    /\ pending_replies[1].kind = "Command"
    /\ active_transaction = Some(DefaultTransaction)

\* What a filter hands back to the proxy for a call of the session that
\* ended as r did: Continue for Ok, the error or the abort otherwise.
FilterStatus(r) == IF r.result.res = "Ok" THEN "Continue" ELSE r.result.res

\* SmtpFilter::on_downstream_data and on_upstream_data for a session in
\* state s, r being what the call of the session leaves: in PassThrough the
\* session is not called.  What the proxy and the sink see of the call, and
\* the session it leaves.
FilterSkipping(s, r) ==
    IF s.mode = "PassThrough"
    THEN [status |-> "Continue", session |-> Fields(s), notified |-> <<>>]
    ELSE [status |-> FilterStatus(r), session |-> Fields(r),
          notified |-> r.notified]

\* The same filter without the test of mode(): the session is always
\* called.
FilterAlwaysCalling(s, r) ==
    [status |-> FilterStatus(r), session |-> Fields(r),
     notified |-> r.notified]

\* C28: the test of mode() in the filter is an optimization.  In every call
\* that carries data, the filter that skips the session in PassThrough and
\* the filter that always calls it leave the same session, make the same
\* sink calls and return the same status, which is Continue whenever no
\* sink call fails.
FilterSkipIsOptimization ==
    [][last_call' \in DataCalls
          => /\ FilterSkipping(Session, Session')
                    = FilterAlwaysCalling(Session, Session')
             /\ SinkOk' => FilterStatus(Session') = "Continue"]_vars

\* A call of on_upstream_data outside PassThrough, during which the sink
\* was not even called, has aborted in the session: neither filter returns
\* Continue.
FilterAbortsWithoutSinkFailure ==
    /\ last_call = "on_upstream_data"
    /\ mode # "PassThrough"
    /\ notified = <<>>
    /\ FilterStatus(Session) = "Panic"

\* A step of on_downstream_data that is given one whole line in Data mode
\* with nothing buffered.
OneBodyLine ==
    /\ last_call' = "on_downstream_data"
    /\ mode = "Data"
    /\ downstream_buffer = <<>>
    /\ next_line(last_data').some
    /\ next_line(last_data').buffer = <<>>

\* The step pushed a Commit entry.
BodyCommitted ==
    /\ Len(pending_replies') = Len(pending_replies) + 1
    /\ pending_replies'[Len(pending_replies')].kind = "Commit"

\* C29: in Data mode a line ends the body exactly if it is "." and a line
\* was taken since Data mode was entered; any other line, a first "." and
\* "..x" included, is appended as it is with CR LF and commits nothing; the
\* committed body is the lines taken since Data mode was entered, in order,
\* each followed by CR LF.
BodyEndsAtDotAfterALine ==
    [][OneBodyLine
          => LET line == next_line(last_data').line
                 ends == line = <<46>> /\ phase_body # <<>>
             IN  /\ ends <=> BodyCommitted
                 /\ BodyCommitted
                       => /\ pending_replies'[Len(pending_replies')].tx.body
                                 = phase_body \o line \o CR_LF
                          /\ next_body' = <<>>
                 /\ ~BodyCommitted
                       => /\ next_body' = next_body \o line \o CR_LF
                          /\ pending_replies' = pending_replies
                          /\ active_transaction' = active_transaction
                          /\ mode' = "Data"]_vars

\* A "." given as the first line of a second Data phase committed a body
\* that begins with the line (a first ".") of the first, abandoned one.
FirstDotCommitsStaleBody ==
    /\ last_call = "on_downstream_data"
    /\ last_data = D_Dot
    /\ result.res = "Ok"
    /\ opened_by = 3
    /\ Len(pending_replies) = 1
    /\ pending_replies[1].kind = "Commit"
    /\ pending_replies[1].tx.body = D_Dot \o D_Dot

\* The complete lines of a byte string, in order.
RECURSIVE CompleteLines(_)
CompleteLines(b) ==
    LET l == next_line(b)
    IN  IF ~l.some THEN <<>> ELSE <<l.line>> \o CompleteLines(l.buffer)

\* Which of the lines given in Data mode ends the body accumulated in body:
\* the first "." that is not the first line of an empty body (0: none).
TerminatorAt(lines, body) ==
    LET ends == {i \in 1..Len(lines) :
                     lines[i] = <<46>> /\ (i > 1 \/ body # <<>>)}
    IN  IF ends = {} THEN 0 ELSE CHOOSE i \in ends : \A j \in ends : i <= j

\* C30: when the bytes of one on_downstream_data call in Data mode hold the
\* body terminator followed by complete command lines, the call sets Mode to
\* Command, notifies the commit and then each of those commands, and pushes
\* the Commit entry and then one Command entry for each; nothing of them is
\* left in the body.
TerminatorThenCommands ==
    [][(/\ last_call' = "on_downstream_data"
        /\ mode = "Data"
        /\ LET lines == CompleteLines(downstream_buffer \o last_data')
               k == TerminatorAt(lines, next_body)
           IN  /\ 0 < k
               /\ k < Len(lines)
               /\ \A j \in (k + 1)..Len(lines) : CommandTryFrom(lines[j]).ok)
          => LET lines == CompleteLines(downstream_buffer \o last_data')
                 k == TerminatorAt(lines, next_body)
                 n == Len(lines) - k
                 was == Len(pending_replies)
             IN  /\ mode' = "Command"
                 /\ next_body' = <<>>
                 /\ Len(pending_replies') = was + 1 + n
                 /\ pending_replies'[was + 1].kind = "Commit"
                 /\ Len(notified') = 1 + n
                 /\ notified'[1].ev = "transaction_commit"
                 /\ \A j \in 1..n :
                       /\ pending_replies'[was + 1 + j].kind = "Command"
                       /\ pending_replies'[was + 1 + j].cmd
                             = CommandTryFrom(lines[k + j]).cmd
                       /\ notified'[1 + j].ev = "command"
                       /\ notified'[1 + j].verb
                             = CommandVerb(CommandTryFrom(lines[k + j]).cmd)]_vars

\* The commit notification failed: the call returned the error with Mode
\* still Data, the Commit entry pushed, and the command that followed the
\* terminator left in the buffer, where the next call takes it as body.
CommandAfterTerminatorLeftAsBody ==
    /\ last_call = "on_downstream_data"
    /\ last_data = D_BodyThenNoop
    /\ result.res = "Err"
    /\ mode = "Data"
    /\ downstream_buffer = D_Noop
    /\ next_body = <<>>
    /\ Len(pending_replies) > 0
    /\ pending_replies[Len(pending_replies)].kind = "Commit"
    /\ pending_replies[Len(pending_replies)].tx.body = D_Text \o D_Dot

\* Where the first CR LF of a byte string begins (0: it holds none).
FirstCrLf(b) ==
    LET at == {i \in 1..(Len(b) - 1) : b[i] = 13 /\ b[i + 1] = 10}
    IN  IF at = {} THEN 0 ELSE CHOOSE i \in at : \A j \in at : i <= j

\* How many complete lines a byte string holds.
RECURSIVE CountLines(_)
CountLines(b) ==
    IF FirstCrLf(b) = 0 THEN 0
    ELSE 1 + CountLines(SubSeq(b, FirstCrLf(b) + 2, Len(b)))

\* What is left of a byte string after its first k lines.
RECURSIVE AfterLines(_, _)
AfterLines(b, k) ==
    IF k = 0 \/ FirstCrLf(b) = 0 THEN b
    ELSE AfterLines(SubSeq(b, FirstCrLf(b) + 2, Len(b)), k - 1)

\* C31: a call of on_downstream_data or on_upstream_data returns after at
\* most as many line extractions as the buffered and new bytes hold complete
\* lines; every extraction removed one line and its CR LF from the front of
\* the buffer, and the other buffer is untouched.  In PassThrough the call
\* extracts nothing.
DrainTakesEachLineOnce ==
    [][/\ (last_call' = "on_downstream_data" /\ mode # "PassThrough")
          => /\ lines_taken' <= CountLines(downstream_buffer \o last_data')
             /\ downstream_buffer'
                   = AfterLines(downstream_buffer \o last_data', lines_taken')
             /\ upstream_buffer' = upstream_buffer
       /\ (last_call' = "on_upstream_data" /\ mode # "PassThrough")
          => /\ lines_taken' <= CountLines(upstream_buffer \o last_data')
             /\ upstream_buffer'
                   = AfterLines(upstream_buffer \o last_data', lines_taken')
             /\ downstream_buffer' = downstream_buffer
       /\ (last_call' \in DataCalls /\ mode = "PassThrough")
          => lines_taken' = 0]_vars

\* One call in Data mode took the three lines it was given: two for the
\* body and one as a command.
DrainTakesEachLineOnceWitness ==
    /\ last_call = "on_downstream_data"
    /\ last_data = D_BodyThenNoop
    /\ lines_taken = 3
    /\ downstream_buffer = <<>>
    /\ mode = "Command"
    /\ result.res = "Ok"

\* C32: no command is lost.  A call of on_downstream_data made in Connect
\* or Command leaves the entries that were pending in place and, for every
\* line it removed from the downstream buffer, has pushed one Command entry,
\* but for a line that did not parse, which went to fallback; this whether
\* or not the sink failed.
NoCommandIsLost ==
    [][(/\ last_call' = "on_downstream_data"
        /\ mode \in {"Connect", "Command"})
          => LET was == Len(pending_replies)
                 pushed == Len(pending_replies') - was
             IN  /\ pushed >= 0
                 /\ SubSeq(pending_replies', 1, was) = pending_replies
                 /\ \A i \in (was + 1)..Len(pending_replies') :
                       pending_replies'[i].kind = "Command"
                 /\ lines_taken'
                       = pushed + (IF fault' = "command" THEN 1 ELSE 0)]_vars

\* The sink failed at on_command: the call returned the error with the
\* NOOP line removed from the buffer, nothing pushed and no fallback.
CommandLostAtSinkFailure ==
    /\ last_call = "on_downstream_data"
    /\ last_data = D_Noop
    /\ result.res = "Err"
    /\ lines_taken = 1
    /\ Len(notified) = 1
    /\ notified[1].ev = "command"
    /\ ~notified[1].ok
    /\ fault = "none"
    /\ downstream_buffer = <<>>
    /\ pending_replies = <<>>
    /\ mode = "Command"

\* C33: when a call of on_downstream_data that pushed a Commit entry (it
\* went on to notify the commit) has returned, with success or with the
\* sink's error, Mode is not Data.
CommitLeavesDataMode ==
    (/\ last_call = "on_downstream_data"
     /\ Events("transaction_commit") # {})
    => mode # "Data"

\* After a commit whose notification failed, the next downstream line was
\* taken as a body line: Mode is Data with the Commit entry still pending.
BodyContinuesAfterCommit ==
    /\ last_call = "on_downstream_data"
    /\ last_data = D_Dot
    /\ result.res = "Ok"
    /\ notified = <<>>
    /\ failed_calls = 1
    /\ mode = "Data"
    /\ next_body = D_Dot
    /\ Len(pending_replies) = 1
    /\ pending_replies[1].kind = "Commit"
    /\ pending_replies[1].tx.body = D_Dot \o D_Dot

\* C34: when on_downstream_data has returned Ok and Mode is not
\* PassThrough, the downstream buffer holds no CR LF; when on_upstream_data
\* has returned Ok and Mode is not PassThrough, the upstream buffer holds no
\* CR LF.
NoCompleteLineLeft ==
    [][/\ (/\ last_call' = "on_downstream_data"
           /\ result'.res = "Ok"
           /\ mode' # "PassThrough")
          => FirstCrLf(downstream_buffer') = 0
       /\ (/\ last_call' = "on_upstream_data"
           /\ result'.res = "Ok"
           /\ mode' # "PassThrough")
          => FirstCrLf(upstream_buffer') = 0]_vars

\* A call given two replies at once has handled both and returned Ok with
\* the upstream buffer empty.
NoCompleteLineLeftWitness ==
    /\ last_call = "on_upstream_data"
    /\ last_data = U_TwoReplies
    /\ result.res = "Ok"
    /\ mode = "Command"
    /\ lines_taken = 2
    /\ Len(notified) = 2
    /\ upstream_buffer = <<>>

\* C35: Connect is the initial Mode only.  Once Mode is Command, Data or
\* PassThrough, no call sets it to Connect.
ConnectIsInitialOnly ==
    [][mode # "Connect" => mode' # "Connect"]_vars

\* After the greeting, a positive reply to RSET was handled in Mode
\* Command: the session was reset and Mode is still Command.
ConnectIsInitialOnlyWitness ==
    /\ last_call = "on_upstream_data"
    /\ connects = 1
    /\ n_completed = 2
    /\ Len(notified) = 1
    /\ notified[1].ev = "command_reply"
    /\ notified[1].verb = Rset_VERB
    /\ is_positive(notified[1].code.x)
    /\ active_transaction = None
    /\ mode = "Command"

\* C36: whenever Mode is Connect or Command, next_body is empty.
BodyEmptyOutsideData ==
    mode \in {"Connect", "Command"} => next_body = <<>>

\* A reply matched to a Connect entry in Mode Data has set Mode to Command
\* with the line accumulated so far left in next_body.
BodyLeftAtGreeting ==
    /\ mode = "Command"
    /\ next_body = D_Dot
    /\ last_call = "on_upstream_data"
    /\ result.res = "Ok"
    /\ Len(notified) = 1
    /\ notified[1].ev = "connect_reply"
    /\ opened_by = 1
    /\ pending_replies = <<>>

\* The counts of sink calls and of entries agree: each kind of reply was
\* notified at most as often as what it replies to, and the queue holds the
\* entries pushed and not yet matched.
Counted(calls, pending, pushed, matched) ==
    /\ calls["connect_reply"] <= calls["connect"]
    /\ calls["command_reply"] <= calls["command"]
    /\ calls["transaction_commit_reply"] <= calls["transaction_commit"]
    /\ Len(pending) = pushed - matched

\* C37: reply notifications never outrun the notifications that announce
\* what they reply to.  At the start and after every call, the sink was
\* called for connect replies at most as often as for connects, for command
\* replies at most as often as for commands, for commit replies at most as
\* often as for commits; and pending_replies holds as many entries as were
\* pushed and not yet matched to a Reply.
RepliesNeverOutrun ==
    /\ Counted(sink_calls, pending_replies, n_enqueued, n_matched)
    /\ [][Counted(sink_calls', pending_replies', n_enqueued',
                  n_matched')]_vars

\* A greeting, a DATA command and a commit have each been notified and
\* replied to, and the queue is empty again.
RepliesNeverOutrunWitness ==
    /\ sink_calls["connect"] = 1
    /\ sink_calls["connect_reply"] = 1
    /\ sink_calls["command"] = 1
    /\ sink_calls["command_reply"] = 1
    /\ sink_calls["transaction_commit"] = 1
    /\ sink_calls["transaction_commit_reply"] = 1
    /\ n_enqueued = 3
    /\ n_matched = 3
    /\ pending_replies = <<>>

====
